---- MODULE Spec2Model ----
(***************************************************************************)
(* getcurcur: the rate-acquisition pipeline.                               *)
(*                                                                         *)
(*   CacheManager          providers/base.py  15-124                       *)
(*   ExchangeRateProvider  providers/base.py 127-276                       *)
(*                                                                         *)
(* Python values are tagged records [t, v]; a cache file is the sequence   *)
(* of JSON tokens json.dump wrote to it.  The clock counts minutes: the    *)
(* model follows the runs in which datetime.now() is read a whole number   *)
(* of minutes apart, so that a reading taken after a retry sleep is at     *)
(* least one minute later than the reading before it.                      *)
(***************************************************************************)
EXTENDS Integers, Sequences, FiniteSets, TLC

(***************************************************************************)
(* Bounds of the model and constants of the program.                       *)
(***************************************************************************)
\* retry(stop=stop_after_attempt(3), ...)
MaxAttempts == 3
\* retry(..., wait=wait_fixed(2)): seconds slept between two attempts
WaitSeconds == 2
\* CacheManager(ttl_minutes=...), the constructor's argument
TtlMinutes == 2
\* how far past one time-to-live the clock may run
ClockSlack == 2

\* self.ttl = timedelta(minutes=ttl_minutes)
Ttl == TtlMinutes
\* the whole minutes that pass before the clock is read after one sleep
WaitTicks == (WaitSeconds + 59) \div 60
MaxClock == Ttl + ClockSlack

(***************************************************************************)
(* Python values.                                                          *)
(***************************************************************************)
PyNone == [t |-> "none", v |-> ""]
PyStr(s) == [t |-> "str", v |-> s]
PyInt(s) == [t |-> "int", v |-> s]
PyList(items) == [t |-> "list", v |-> items]
\* a dict is its items in insertion order, each <<key, value>>
PyDict(pairs) == [t |-> "dict", v |-> pairs]

\* bool(x), as `if cached_data:` and `if not data:` evaluate it
Truthy(x) ==
  CASE x.t = "none" -> FALSE
    [] x.t = "int" -> x.v # "0"
    [] x.t = "str" -> x.v # ""
    [] OTHER -> x.v # <<>>

DictHas(pairs, k) == \E i \in 1..Len(pairs) : pairs[i][1] = k

DictGet(pairs, k) ==
  pairs[CHOOSE i \in 1..Len(pairs) : pairs[i][1] = k][2]

\* d[k] = v on a dict: an existing key keeps its place
DictSet(pairs, k, val) ==
  IF DictHas(pairs, k)
  THEN [i \in 1..Len(pairs) |->
          IF pairs[i][1] = k THEN <<k, val>> ELSE pairs[i]]
  ELSE Append(pairs, <<k, val>>)

\* `k in x` for a str k: "yes", "no", or "TypeError" when x is not iterable.
\* No string of the model contains another as a proper substring, so the
\* substring test on a str is equality.
PyIn(k, x) ==
  CASE x.t = "dict" -> IF DictHas(x.v, k) THEN "yes" ELSE "no"
    [] x.t = "list" ->
         IF \E i \in 1..Len(x.v) : x.v[i] = PyStr(k) THEN "yes" ELSE "no"
    [] x.t = "str" -> IF x.v = k THEN "yes" ELSE "no"
    [] OTHER -> "TypeError"

\* x[k] for a str k: only a dict can be subscripted by a str
PyGetItem(x, k) ==
  IF x.t = "dict" /\ DictHas(x.v, k)
  THEN [err |-> "", val |-> DictGet(x.v, k)]
  ELSE [err |-> (IF x.t = "dict" THEN "KeyError" ELSE "TypeError"),
        val |-> PyNone]

(***************************************************************************)
(* JSON text: a sequence of tokens.                                        *)
(***************************************************************************)
Tok(k, s) == [k |-> k, s |-> s]
LBrace == Tok("{", "")
RBrace == Tok("}", "")
LBrack == Tok("[", "")
RBrack == Tok("]", "")
Colon == Tok(":", "")
Comma == Tok(",", "")
NullTok == Tok("null", "")
StrTok(s) == Tok("str", s)
NumTok(s) == Tok("num", s)
\* bytes that are no JSON token: foreign text, or the hole of a sparse write
JunkTok == Tok("junk", "")

RECURSIVE JsonDump(_), DumpItems(_), DumpPairs(_)
\* json.dump(obj, f, ensure_ascii=False, indent=2)
JsonDump(x) ==
  CASE x.t = "str" -> <<StrTok(x.v)>>
    [] x.t = "int" -> <<NumTok(x.v)>>
    [] x.t = "none" -> <<NullTok>>
    [] x.t = "list" -> <<LBrack>> \o DumpItems(x.v) \o <<RBrack>>
    [] x.t = "dict" -> <<LBrace>> \o DumpPairs(x.v) \o <<RBrace>>

DumpItems(items) ==
  IF items = <<>> THEN <<>>
  ELSE JsonDump(Head(items))
         \o (IF Len(items) > 1 THEN <<Comma>> ELSE <<>>)
         \o DumpItems(Tail(items))

DumpPairs(pairs) ==
  IF pairs = <<>> THEN <<>>
  ELSE <<StrTok(Head(pairs)[1]), Colon>> \o JsonDump(Head(pairs)[2])
         \o (IF Len(pairs) > 1 THEN <<Comma>> ELSE <<>>)
         \o DumpPairs(Tail(pairs))

ParseFail == [ok |-> FALSE, val |-> PyNone, rest |-> <<>>]
ParseOk(val, rest) == [ok |-> TRUE, val |-> val, rest |-> rest]

RECURSIVE ParseValue(_), ParseItems(_, _), ParsePairs(_, _)
ParseValue(toks) ==
  IF toks = <<>> THEN ParseFail
  ELSE LET h == Head(toks)
           r == Tail(toks)
       IN CASE h.k = "str" -> ParseOk(PyStr(h.s), r)
            [] h.k = "num" -> ParseOk(PyInt(h.s), r)
            [] h.k = "null" -> ParseOk(PyNone, r)
            [] h.k = "[" ->
                 IF r # <<>> /\ Head(r).k = "]"
                 THEN ParseOk(PyList(<<>>), Tail(r))
                 ELSE ParseItems(r, <<>>)
            [] h.k = "{" ->
                 IF r # <<>> /\ Head(r).k = "}"
                 THEN ParseOk(PyDict(<<>>), Tail(r))
                 ELSE ParsePairs(r, <<>>)
            [] OTHER -> ParseFail

ParseItems(toks, acc) ==
  LET e == ParseValue(toks)
  IN IF ~e.ok \/ e.rest = <<>> THEN ParseFail
     ELSE IF Head(e.rest).k = ","
       THEN ParseItems(Tail(e.rest), Append(acc, e.val))
     ELSE IF Head(e.rest).k = "]"
       THEN ParseOk(PyList(Append(acc, e.val)), Tail(e.rest))
     ELSE ParseFail

ParsePairs(toks, acc) ==
  IF Len(toks) < 2 \/ Head(toks).k # "str" \/ toks[2].k # ":" THEN ParseFail
  ELSE LET e == ParseValue(Tail(Tail(toks)))
       IN IF ~e.ok \/ e.rest = <<>> THEN ParseFail
          ELSE IF Head(e.rest).k = ","
            THEN ParsePairs(Tail(e.rest), DictSet(acc, Head(toks).s, e.val))
          ELSE IF Head(e.rest).k = "}"
            THEN ParseOk(PyDict(DictSet(acc, Head(toks).s, e.val)),
                         Tail(e.rest))
          ELSE ParseFail

\* json.load(f): ok = FALSE is json.JSONDecodeError
JsonLoad(text) ==
  LET p == ParseValue(text)
  IN IF p.ok /\ p.rest = <<>>
     THEN [ok |-> TRUE, val |-> p.val]
     ELSE [ok |-> FALSE, val |-> PyNone]

(***************************************************************************)
(* Rate records and snapshots.                                             *)
(***************************************************************************)
\* HanaBankProvider.get_provider_name(), and the name the tests cache under
HanaName == "KEB Hana Bank (Korea)"
TestName == "test_provider"
Names == {HanaName, TestName}

\* one RateRecord, as _parse_exchange_table builds it
RateRecord(currency, code, buy, sell) ==
  PyDict(<< <<"currency", PyStr(currency)>>, <<"code", PyStr(code)>>,
            <<"cash_buy", PyStr(buy)>>, <<"cash_sell", PyStr(sell)>>,
            <<"provider", PyStr(HanaName)>>, <<"country", PyStr("KR")>> >>)

UsdRecord == RateRecord("US Dollar", "USD", "1,300.00", "1,350.00")
JpyRecord == RateRecord("Japanese Yen", "JPY", "900.10", "-")

EmptySnapshot == PyList(<<>>)
\* the non-empty snapshots a fetch may produce
Snapshots == {PyList(<<UsdRecord>>), PyList(<<JpyRecord, UsdRecord>>)}

(***************************************************************************)
(* CacheManager: key, file layout, get and set.                            *)
(***************************************************************************)
\* the keyword parameters of the model, in sorted order
ParamNames == <<"param1", "param2">>

\* **kwargs as passed: <<name, value>> pairs in call order
KwargsSet ==
  { <<>>,
    << <<"param1", "value1">>, <<"param2", "value2">> >>,
    << <<"param2", "value2">>, <<"param1", "value1">> >> }

SortedItemsAsPassed(kw) == kw

\* the items of kwargs in sorted key order (sort_keys=True)
SortedItems(kw) ==
  LET present == {i \in 1..Len(ParamNames) : DictHas(kw, ParamNames[i])}
      RECURSIVE Build(_, _)
      Build(i, acc) ==
        IF i > Len(ParamNames) THEN acc
        ELSE Build(i + 1,
                   IF i \in present
                   THEN Append(acc, <<ParamNames[i], DictGet(kw, ParamNames[i])>>)
                   ELSE acc)
  IN Build(1, <<>>)

RECURSIVE ItemsText(_)
ItemsText(items) ==
  IF items = <<>> THEN ""
  ELSE "\"" \o Head(items)[1] \o "\": \"" \o Head(items)[2] \o "\""
         \o (IF Len(items) > 1 THEN ", " ELSE "")
         \o ItemsText(Tail(items))

\* json.dumps(kwargs, sort_keys=True)
DumpsSorted(kw) == "{" \o ItemsText(SortedItems(kw)) \o "}"

\* hashlib.md5(...).hexdigest(): the digest is named by the text it digests
\* (no two texts of the model collide)
Md5Hex(text) == "md5:" \o text

\* CacheManager._get_cache_key
GetCacheKey(name, kw) == Md5Hex(name \o "_" \o DumpsSorted(kw))

CacheKeys == {GetCacheKey(n, kw) : n \in Names, kw \in KwargsSet}

NoFile == [exists |-> FALSE, text |-> <<>>]
FileOf(text) == [exists |-> TRUE, text |-> text]

\* datetime.isoformat() of the clock value n
IsoFormat(n) == "T" \o ToString(n)

\* datetime.fromisoformat(x): TypeError unless x is a str, ValueError unless
\* the str is an ISO date
FromIsoFormat(x) ==
  IF x.t # "str" THEN [err |-> "TypeError", at |-> 0]
  ELSE IF \E n \in 0..MaxClock : IsoFormat(n) = x.v
    THEN [err |-> "", at |-> CHOOSE n \in 0..MaxClock : IsoFormat(n) = x.v]
  ELSE [err |-> "ValueError", at |-> 0]

\* cache_data of CacheManager.set
CacheData(name, data, now) ==
  PyDict(<< <<"timestamp", PyStr(IsoFormat(now))>>,
            <<"provider", PyStr(name)>>,
            <<"data", data>> >>)

Miss(unlink) == [kind |-> "miss", val |-> PyNone, exc |-> "", unlink |-> unlink]
Hit(val) == [kind |-> "hit", val |-> val, exc |-> "", unlink |-> FALSE]
GetRaise(exc) == [kind |-> "raise", val |-> PyNone, exc |-> exc, unlink |-> FALSE]

ExpiredLate(now, at) == now - at > Ttl + 1

\* now - cached_time > self.ttl
Expired(now, at) == now - at > Ttl

CacheGetNeverHits(f, now) == Miss(FALSE)

CacheGetReturnsWhole(f, now) ==
  IF ~f.exists THEN Miss(FALSE)
  ELSE LET ld == JsonLoad(f.text)
           at == FromIsoFormat(PyGetItem(ld.val, "timestamp").val)
       IN IF ~ld.ok \/ at.err # "" THEN Miss(TRUE)
          ELSE IF now - at.at > Ttl THEN Miss(TRUE)
          ELSE Hit(ld.val)

\* CacheManager.get on the cache file f at time now: what it returns or
\* raises, and whether it unlinks the file
CacheGet(f, now) ==
  IF ~f.exists THEN Miss(FALSE)
  ELSE LET ld == JsonLoad(f.text)
       IN IF ~ld.ok THEN Miss(TRUE)
          ELSE LET cd == ld.val
                   hasTs == PyIn("timestamp", cd)
                   hasData == PyIn("data", cd)
                   ts == PyGetItem(cd, "timestamp")
                   at == FromIsoFormat(ts.val)
               IN IF hasTs = "TypeError" THEN GetRaise("CacheError")
                  ELSE IF hasTs = "no" \/ hasData = "no" THEN Miss(TRUE)
                  ELSE IF ts.err # "" THEN GetRaise("CacheError")
                  ELSE IF at.err = "TypeError" THEN GetRaise("CacheError")
                  ELSE IF at.err = "ValueError" THEN Miss(TRUE)
                  ELSE IF Expired(now, at.at) THEN Miss(TRUE)
                  ELSE Hit(PyGetItem(cd, "data").val)

\* the attributes of the standard json module that the handlers name
JsonModuleHas(attr) == attr \in {"JSONDecodeError", "JSONEncoder", "JSONDecoder"}

\* where an I/O failure may strike CacheManager.set
Faults == {"none", "open", "write", "rename"}

\* the first buffer that reaches the file when a write is cut short
FirstChunk(text) == SubSeq(text, 1, Len(text) \div 2)

\* `except (OSError, json.JSONEncodeError)`: evaluating the tuple raises
\* AttributeError when json has no JSONEncodeError, and that error leaves set
SetHandler(tmp) ==
  IF JsonModuleHas("JSONEncodeError")
  THEN [exc |-> "", tmp |-> NoFile]
  ELSE [exc |-> "AttributeError", tmp |-> tmp]

CacheSetNoEmptyGuard(f, tmp, name, data, now, fault) ==
  [file |-> FileOf(JsonDump(CacheData(name, data, now))), tmp |-> NoFile,
   exc |-> ""]

CacheSetNoPublish(f, tmp, name, data, now, fault) ==
  [file |-> f, tmp |-> FileOf(JsonDump(CacheData(name, data, now))),
   exc |-> ""]

\* the temporary file is copied to the cache file and stays
CacheSetCopies(f, tmp, name, data, now, fault) ==
  IF ~Truthy(data) THEN [file |-> f, tmp |-> tmp, exc |-> ""]
  ELSE [file |-> FileOf(JsonDump(CacheData(name, data, now))),
        tmp |-> FileOf(JsonDump(CacheData(name, data, now))), exc |-> ""]

\* CacheManager.set(name, data) at time now on the cache file f and the
\* temporary file tmp of its key, with an I/O failure at `fault`
CacheSet(f, tmp, name, data, now, fault) ==
  LET text == JsonDump(CacheData(name, data, now))
      failed(t) == LET h == SetHandler(t)
                   IN [file |-> f, tmp |-> h.tmp, exc |-> h.exc]
  IN IF ~Truthy(data) THEN [file |-> f, tmp |-> tmp, exc |-> ""]
     ELSE CASE fault = "open" -> failed(tmp)
            [] fault = "write" -> failed(FileOf(FirstChunk(text)))
            [] fault = "rename" -> failed(FileOf(text))
            [] OTHER -> [file |-> FileOf(text), tmp |-> NoFile, exc |-> ""]

(***************************************************************************)
(* State.                                                                  *)
(***************************************************************************)
VARIABLES
  clock,         \* datetime.now(), in ticks
  files,         \* cache key -> the cache file <key>.json
  tmps,          \* cache key -> the temporary file <key>.tmp
  cacheEnabled,  \* self.cache_enabled (cache_manager is set exactly then)
  pc,            \* where the running get_rates call stands
  log,           \* what the current (or last) get_rates call did, in order
  lastErr,       \* the error of the last failed fetch attempt
  ret,           \* how the last finished call ended
  last,          \* the step taken last
  written,       \* cache key -> the entry set published there, while it stays
  procs,         \* the concurrent processes sharing the cache directory
  conv,          \* the convert_amount call: its arguments and where it stands
  hana,          \* HanaBankProvider.fetch_rates: where it stands, its page
  providers,     \* main.PROVIDERS: country -> bank names, in insertion order
  cmd,           \* the show or convert command that runs: arguments, position
  browser,       \* the run of BrowserManager.browser_context: what it holds
  manager,       \* browser_manager._browser_manager and the instances made
  config         \* Config: DEFAULT_CONFIG, the config file, the last object

\* the state of the command line and of what it sets up
cliVars == <<cmd, browser, manager, config>>

vars ==
  <<clock, files, tmps, cacheEnabled, pc, log, lastErr, ret, last, written,
    procs, conv, hana, providers, cmd, browser, manager, config>>

ProviderKey == GetCacheKey(HanaName, <<>>)

Returned(val) == [kind |-> "return", val |-> val, exc |-> ""]
Raised(exc) == [kind |-> "raise", val |-> PyNone, exc |-> exc]
NoRet == [kind |-> "none", val |-> PyNone, exc |-> ""]

NotWritten == [has |-> FALSE, data |-> PyNone, at |-> 0]
WrittenAt(data, now) == [has |-> TRUE, data |-> data, at |-> now]

\* the processes of the concurrent runs: two call set, one calls get
Writers == {"w1", "w2"}
Readers == {"r1"}
Procs == Writers \cup Readers

\* a process before its call: no file open, nothing read
IdleProc ==
  [pc |-> "idle", key |-> "", text |-> <<>>, where |-> "none", off |-> 0,
   seen |-> NoFile, out |-> ""]

\* no convert_amount call yet
IdleConv == [pc |-> "none", amount |-> 0, from |-> "", to |-> "", type |-> ""]

\* fetch_rates not running, no page
IdleHana ==
  [pc |-> "idle", open |-> 0, opened |-> 0, failed |-> "", exc |-> "",
   rows |-> <<>>, results |-> PyList(<<>>)]

\* PROVIDERS as main.py defines it
ActualProviders == << <<"korea", <<"hana">> >> >>

Step(act, key, arg, flag) == [act |-> act, key |-> key, arg |-> arg, flag |-> flag]

\* no command has run yet
IdleCmd ==
  [name |-> "none", pc |-> "none", noCache |-> FALSE, currency |-> "",
   format |-> "", amount |-> 0, from |-> "", to |-> "", transaction |-> "",
   raised |-> "", msg |-> ""]

\* browser_context is not running: no browser, no context; self._browser,
\* the shared browser, is None
NoBrowser ==
  [pc |-> "none", launched |-> 0, created |-> 0, ctxClosed |-> 0,
   brClosed |-> 0, warned |-> <<>>, exc |-> "", headless |-> TRUE, ua |-> "",
   shared |-> "none"]

\* the user agent BrowserManager falls back to (its text stands for the
\* Mozilla/5.0 ... Safari/537.36 literal)
DefaultUA == "Mozilla/5.0 (default)"

\* a BrowserManager object: its identity and its two settings
Manager(id, headless, ua) == [t |-> "BrowserManager", v |-> <<id, headless, ua>>]

\* BrowserManager.__init__: user_agent or the default
NewManager(id, headless, user_agent) ==
  Manager(id, headless, IF Truthy(user_agent) THEN user_agent.v ELSE DefaultUA)

\* _browser_manager = BrowserManager(), made when the module is imported
ImportedManager == [inst |-> NewManager(0, TRUE, PyNone), made |-> 1]

PyBool(b) == [t |-> "bool", v |-> IF b THEN "True" ELSE "False"]

\* a top-level value of a config dict that is the nested dict object `name`
\* of DEFAULT_CONFIG itself: dict.copy() copies the top level only
Ref(name) == [t |-> "ref", v |-> name]

\* the nested dicts of Config.DEFAULT_CONFIG
DefaultNested ==
  [cache |-> PyDict(<< <<"enabled", PyBool(TRUE)>>,
                       <<"ttl_minutes", PyInt("30")>> >>),
   browser |-> PyDict(<< <<"headless", PyBool(TRUE)>>,
                         <<"timeout", PyInt("30000")>> >>),
   output |-> PyDict(<< <<"default_format", PyStr("table")>>,
                        <<"default_currency", PyNone>> >>)]

\* the top level of Config.DEFAULT_CONFIG
DefaultTop ==
  << <<"default_provider", PyStr("korea.hana")>>, <<"cache", Ref("cache")>>,
     <<"browser", Ref("browser")>>, <<"output", Ref("output")>> >>

\* no Config object yet; DEFAULT_CONFIG as the class statement builds it
InitConfig == [nested |-> DefaultNested, obj |-> PyNone]

InitCli ==
  /\ cmd = IdleCmd
  /\ browser = NoBrowser
  /\ manager = ImportedManager
  /\ config = InitConfig

Init ==
  /\ clock = 0
  /\ files = [k \in CacheKeys |-> NoFile]
  /\ tmps = [k \in CacheKeys |-> NoFile]
  /\ cacheEnabled \in BOOLEAN
  /\ pc = "idle"
  /\ log = <<>>
  /\ lastErr = ""
  /\ ret = NoRet
  /\ last = Step("init", "", PyNone, FALSE)
  /\ written = [k \in CacheKeys |-> NotWritten]
  /\ procs = [p \in Procs |-> IdleProc]
  /\ conv = IdleConv
  /\ hana = IdleHana
  /\ providers = ActualProviders
  /\ InitCli

(***************************************************************************)
(* The environment: time passes, and the cache directory is a shared       *)
(* directory whose files another program may have written.                 *)
(***************************************************************************)
\* The observations of a finished call (ret, log, lastErr) are kept until the
\* next step: a step of the environment between two calls forgets them.
Forget ==
  IF pc = "idle"
  THEN log' = <<>> /\ lastErr' = "" /\ ret' = NoRet
  ELSE UNCHANGED <<log, lastErr, ret>>

\* one minute passes
Tick ==
  /\ clock + 1 <= MaxClock
  /\ clock' = clock + 1
  /\ last' = Step("Tick", "", PyNone, FALSE)
  /\ Forget
  /\ UNCHANGED <<cliVars, conv, hana, providers, procs, files, tmps, cacheEnabled, pc, written>>

\* contents of a cache file that CacheManager.set never writes
ForeignTexts ==
  { <<JunkTok>>,
    <<NumTok("5")>>,
    <<NullTok>>,
    <<StrTok("abc")>>,
    JsonDump(PyList(<<PyStr("timestamp"), PyStr("data")>>)),
    JsonDump(PyDict(<< <<"data", PyList(<<UsdRecord>>)>> >>)),
    JsonDump(PyDict(<< <<"timestamp", PyStr(IsoFormat(0))>> >>)),
    JsonDump(PyDict(<< <<"timestamp", PyStr("yesterday")>>,
                       <<"data", PyList(<<UsdRecord>>)>> >>)),
    JsonDump(PyDict(<< <<"timestamp", PyInt("5")>>,
                       <<"data", PyList(<<UsdRecord>>)>> >>)),
    FirstChunk(JsonDump(CacheData(HanaName, PyList(<<UsdRecord>>), 0))),
    JsonDump(CacheData(HanaName, EmptySnapshot, 0)) }

Tamper(k, text) ==
  /\ pc = "idle"
  /\ files' = [files EXCEPT ![k] = FileOf(text)]
  /\ written' = [written EXCEPT ![k] = NotWritten]
  /\ last' = Step("Tamper", k, PyNone, FALSE)
  /\ Forget
  /\ UNCHANGED <<cliVars, conv, hana, providers, procs, clock, tmps, cacheEnabled, pc>>

(***************************************************************************)
(* Direct calls of CacheManager.get and CacheManager.set.                  *)
(***************************************************************************)
Unlinked(k, g) ==
  IF g.unlink THEN [files EXCEPT ![k] = NoFile] ELSE files

\* the published entry of k is gone when get unlinks the file
Unpublished(k, g) ==
  IF g.unlink THEN [written EXCEPT ![k] = NotWritten] ELSE written

\* the entry a set that returned has published under k
Published(k, e, data, now) ==
  IF e.exc = "" /\ Truthy(data)
  THEN [written EXCEPT ![k] = WrittenAt(data, now)]
  ELSE written

CacheGetCall(name, kw) ==
  LET k == GetCacheKey(name, kw)
      g == CacheGet(files[k], clock)
  IN /\ pc = "idle"
     /\ files' = Unlinked(k, g)
     /\ written' = Unpublished(k, g)
     /\ ret' = IF g.kind = "raise" THEN Raised(g.exc) ELSE Returned(g.val)
     /\ last' = Step("CacheGet", k, PyNone, g.unlink)
     /\ log' = <<>>
     /\ lastErr' = ""
     /\ UNCHANGED <<cliVars, conv, hana, providers, procs, clock, tmps, cacheEnabled, pc>>

CacheSetCall(name, kw, data, fault) ==
  LET k == GetCacheKey(name, kw)
      e == CacheSet(files[k], tmps[k], name, data, clock, fault)
  IN /\ pc = "idle"
     /\ files' = [files EXCEPT ![k] = e.file]
     /\ tmps' = [tmps EXCEPT ![k] = e.tmp]
     /\ written' = Published(k, e, data, clock)
     /\ ret' = IF e.exc # "" THEN Raised(e.exc) ELSE Returned(PyNone)
     /\ last' = Step("CacheSet", k, data, fault # "none")
     /\ log' = <<>>
     /\ lastErr' = ""
     /\ UNCHANGED <<cliVars, conv, hana, providers, procs, clock, cacheEnabled, pc>>

(***************************************************************************)
(* ExchangeRateProvider.get_rates: the cache lookup, then fetch_rates      *)
(* under tenacity's retry, then the write through to the cache.            *)
(***************************************************************************)
\* the ProviderError kinds fetch_rates raises
FetchErrors == {"NetworkError", "TimeoutError", "ParseError"}

\* retry(...) is given no reraise=True: when the attempts are used up
\* tenacity raises its own RetryError, which wraps the last attempt
RetryReraise == FALSE

\* what _fetch_with_retry raises when the last allowed attempt raised err
RetryExhausted(err) == IF RetryReraise THEN err ELSE "RetryError"

FetchEvents == {"fetch_raised", "fetch_returned"}

\* the number of fetch_rates invocations a call has made
Attempts(l) == Cardinality({i \in 1..Len(l) : l[i] \in FetchEvents})

\* what the retry runs anew: with the lookup inside _fetch_with_retry every
\* attempt would start with a cache read
AttemptWithLookup(outcome) == <<"cache_get", outcome>>

\* lines 187-189: the events of one attempt of _fetch_with_retry, whose body
\* is the call of fetch_rates and nothing else
Attempt(outcome) == <<outcome>>

\* use_cache is ignored
UsesCacheWhenEnabled(useCache, enabled) == enabled

\* line 181: `use_cache and self.cache_enabled and self.cache_manager`
UsesCache(useCache, enabled) == useCache /\ enabled

\* lines 181-184: the lookup and, on a hit, the return
GetRatesCall(useCache) ==
  LET lookup == UsesCache(useCache, cacheEnabled)
      g == IF lookup THEN CacheGet(files[ProviderKey], clock) ELSE Miss(FALSE)
  IN /\ pc = "idle"
     /\ files' = Unlinked(ProviderKey, g)
     /\ written' = Unpublished(ProviderKey, g)
     /\ log' = IF lookup THEN <<"cache_get">> ELSE <<>>
     /\ lastErr' = ""
     /\ last' = Step("GetRates", ProviderKey, PyNone, useCache)
     /\ CASE g.kind = "raise" -> pc' = "idle" /\ ret' = Raised(g.exc)
          [] g.kind = "hit" /\ Truthy(g.val) ->
               pc' = "idle" /\ ret' = Returned(g.val)
          [] OTHER -> pc' = "fetch" /\ ret' = NoRet
     /\ UNCHANGED <<cliVars, conv, hana, providers, procs, clock, tmps, cacheEnabled>>

\* one attempt of _fetch_with_retry that returns `rates`, and lines 194-198
FetchReturns(rates, fault) ==
  LET write == cacheEnabled /\ Truthy(rates)
      e == IF write
           THEN CacheSet(files[ProviderKey], tmps[ProviderKey], HanaName,
                         rates, clock, fault)
           ELSE [file |-> files[ProviderKey], tmp |-> tmps[ProviderKey],
                 exc |-> ""]
  IN /\ pc = "fetch"
     /\ write \/ fault = "none"
     /\ files' = [files EXCEPT ![ProviderKey] = e.file]
     /\ tmps' = [tmps EXCEPT ![ProviderKey] = e.tmp]
     /\ written' = IF write THEN Published(ProviderKey, e, rates, clock)
                   ELSE written
     /\ log' = log \o Attempt("fetch_returned")
                    \o (IF write THEN <<"cache_set">> ELSE <<>>)
     /\ ret' = IF e.exc # "" THEN Raised(e.exc) ELSE Returned(rates)
     /\ pc' = "idle"
     /\ last' = Step("FetchReturns", ProviderKey, rates, fault # "none")
     /\ UNCHANGED <<cliVars, conv, hana, providers, procs, clock, cacheEnabled, lastErr>>

\* one attempt of _fetch_with_retry that raises err
FetchRaises(err) ==
  /\ pc = "fetch"
  /\ log' = log \o Attempt("fetch_raised")
  /\ lastErr' = err
  /\ last' = Step("FetchRaises", ProviderKey, PyNone, FALSE)
  /\ IF Attempts(log') >= MaxAttempts
     THEN pc' = "idle" /\ ret' = Raised(RetryExhausted(err))
     ELSE pc' = "wait" /\ ret' = NoRet
  /\ UNCHANGED <<cliVars, conv, hana, providers, procs, clock, files, tmps, cacheEnabled, written>>

\* wait_fixed(2): the sleep between two attempts
RetryWait ==
  /\ pc = "wait"
  /\ clock + WaitTicks <= MaxClock
  /\ clock' = clock + WaitTicks
  /\ log' = Append(log, "wait")
  /\ pc' = "fetch"
  /\ last' = Step("RetryWait", ProviderKey, PyNone, FALSE)
  /\ UNCHANGED <<cliVars, conv, hana, providers, procs, files, tmps, cacheEnabled, lastErr, ret, written>>

(***************************************************************************)
(* One provider working on its own cache entry.                            *)
(***************************************************************************)
Next ==
  \/ Tick
  \/ \E text \in ForeignTexts : Tamper(ProviderKey, text)
  \/ CacheGetCall(HanaName, <<>>)
  \/ \E data \in Snapshots \cup {EmptySnapshot}, fault \in Faults :
       CacheSetCall(HanaName, <<>>, data, fault)
  \/ \E useCache \in BOOLEAN : GetRatesCall(useCache)
  \/ \E rates \in Snapshots \cup {EmptySnapshot}, fault \in Faults :
       FetchReturns(rates, fault)
  \/ \E err \in FetchErrors : FetchRaises(err)
  \/ RetryWait

Spec == Init /\ [][Next]_vars

(***************************************************************************)
(* One cache manager called directly under several keys.                   *)
(***************************************************************************)
\* the (provider name, kwargs) pairs of the direct calls
StoreCalls ==
  { <<HanaName, <<>> >>,
    <<TestName, <<>> >>,
    <<TestName, << <<"param1", "value1">>, <<"param2", "value2">> >> >>,
    <<TestName, << <<"param2", "value2">>, <<"param1", "value1">> >> >> }

InitStore == Init /\ cacheEnabled

NextStore ==
  \/ Tick
  \/ \E c \in StoreCalls : CacheGetCall(c[1], c[2])
  \/ \E c \in StoreCalls, data \in Snapshots \cup {EmptySnapshot} :
       CacheSetCall(c[1], c[2], data, "none")

SpecStore == InitStore /\ [][NextStore]_vars

(***************************************************************************)
(* CacheManager.get on a cache file that is there and cannot be opened.    *)
(***************************************************************************)
\* lines 45-46 and 72-78: open() raises an OSError (no permission, too many
\* open files, a directory at the path); the handler logs it, tries to
\* unlink the file, which may fail in turn, and get returns None
CacheGetOpenFails(f, unlinkOk) == Miss(unlinkOk)

\* one call get(name, **kw) whose open() fails
CacheGetFaultCall(name, kw, unlinkOk) ==
  LET k == GetCacheKey(name, kw)
      g == CacheGetOpenFails(files[k], unlinkOk)
  IN /\ pc = "idle"
     /\ files[k].exists
     /\ files' = Unlinked(k, g)
     /\ written' = Unpublished(k, g)
     /\ ret' = IF g.kind = "raise" THEN Raised(g.exc) ELSE Returned(g.val)
     /\ last' = Step("CacheGetFault", k, PyNone, g.unlink)
     /\ log' = <<>>
     /\ lastErr' = ""
     /\ UNCHANGED <<cliVars, conv, hana, providers, procs, clock, tmps,
                    cacheEnabled, pc>>

\* the cache file holds what set wrote: nothing here corrupts it
NextFault ==
  \/ Tick
  \/ CacheGetCall(HanaName, <<>>)
  \/ \E unlinkOk \in BOOLEAN : CacheGetFaultCall(HanaName, <<>>, unlinkOk)
  \/ \E data \in Snapshots \cup {EmptySnapshot} :
       CacheSetCall(HanaName, <<>>, data, "none")

SpecFault == InitStore /\ [][NextFault]_vars

(***************************************************************************)
(* CacheManager._get_cache_key called on its own, over provider names and  *)
(* keyword parameters in every call order.                                 *)
(***************************************************************************)
\* the provider names of the key calls
KeyNames == {HanaName, TestName, "test_provider_fresh", "provider1", "provider2"}

\* the values a keyword parameter takes
ParamValues == {"value1", "value2", "value3"}

\* every **kwargs over ParamNames and ParamValues, in every call order
AllKwargs ==
  {<<>>}
  \cup { << <<ParamNames[i], v>> >> : i \in 1..Len(ParamNames), v \in ParamValues }
  \cup { << <<ParamNames[ij[1]], v>>, <<ParamNames[ij[2]], w>> >> :
           ij \in {x \in (1..Len(ParamNames)) \X (1..Len(ParamNames)) :
                     x[1] # x[2]},
           v \in ParamValues, w \in ParamValues }

\* one call self._get_cache_key(name, **kw)
KeyCall(name, kw) ==
  /\ last' = Step("GetCacheKey", name, PyDict(kw), FALSE)
  /\ ret' = Returned(PyStr(GetCacheKey(name, kw)))
  /\ UNCHANGED <<cliVars, conv, hana, providers, procs, clock, files, tmps, cacheEnabled, pc, log, lastErr,
                 written>>

NextKey == \E name \in KeyNames, kw \in AllKwargs : KeyCall(name, kw)

SpecKey == InitStore /\ [][NextKey]_vars

(***************************************************************************)
(* Several processes on the cache directory.  Every open file object       *)
(* refers to the file it opened, whatever path leads to that file later:   *)
(* `where` follows it from the temporary path to the cache path when some  *)
(* process renames it, and to "gone" when it is unlinked or replaced.      *)
(***************************************************************************)
TempPathShared(k) == GetCacheKey(HanaName, <<>>)

\* line 105: cache_file.with_suffix('.tmp'), the temporary file of key k
TempPath(k) == k

\* the file objects that refer to the file of key k at path `from` now
\* refer to `to`
Moved(ps, k, from, to) ==
  [p \in Procs |->
     IF ps[p].key = k /\ ps[p].where = from
     THEN [ps[p] EXCEPT !.where = to] ELSE ps[p]]

\* f.write(chunk) at offset off of a file holding content: a write beyond
\* the end leaves a hole
WriteAt(content, off, chunk) ==
  LET hole == [i \in 1..(off - Len(content)) |-> JunkTok]
      padded == IF Len(content) < off THEN content \o hole ELSE content
  IN SubSeq(padded, 1, off) \o chunk
       \o SubSeq(padded, off + Len(chunk) + 1, Len(padded))

\* what is left of text to write from offset off: up to the first buffer,
\* then the rest
NextChunk(text, off) ==
  IF off < Len(FirstChunk(text))
  THEN SubSeq(text, off + 1, Len(FirstChunk(text)))
  ELSE SubSeq(text, off + 1, Len(text))

\* set(c[1], data, **c[2]), lines 87-106: the entry is built and the
\* temporary file opened for writing, which creates it or truncates the one
\* that is there
SetOpen(p, c, data) ==
  LET k == GetCacheKey(c[1], c[2])
  IN /\ procs[p].pc = "idle"
     /\ tmps' = [tmps EXCEPT ![TempPath(k)] = FileOf(<<>>)]
     /\ procs' = [procs EXCEPT ![p] =
          [pc |-> "writing", key |-> k,
           text |-> JsonDump(CacheData(c[1], data, clock)),
           where |-> "tmp", off |-> 0, seen |-> NoFile, out |-> ""]]
     /\ UNCHANGED <<cliVars, conv, hana, providers, clock, files, cacheEnabled,
                    pc, log, lastErr, ret, last, written>>

\* set, line 107: one buffer of json.dump reaches the file; after the last
\* one the with-block closes the file
SetWrite(p) ==
  LET me == procs[p]
      k == me.key
      chunk == NextChunk(me.text, me.off)
      off == me.off + Len(chunk)
      after == [me EXCEPT !.off = off,
                          !.pc = IF off = Len(me.text) THEN "closed"
                                 ELSE "writing"]
  IN /\ me.pc = "writing"
     /\ procs' = [procs EXCEPT ![p] = after]
     /\ CASE me.where = "tmp" ->
               /\ tmps' = [tmps EXCEPT ![TempPath(k)] =
                     FileOf(WriteAt(tmps[TempPath(k)].text, me.off, chunk))]
               /\ UNCHANGED files
          [] me.where = "cache" ->
               /\ files' = [files EXCEPT ![k] =
                     FileOf(WriteAt(files[k].text, me.off, chunk))]
               /\ UNCHANGED tmps
          [] OTHER -> UNCHANGED <<files, tmps>>
     /\ UNCHANGED <<cliVars, conv, hana, providers, clock, cacheEnabled, pc, log,
                    lastErr, ret, last, written>>

\* set, line 110: temp_file.rename(cache_file); without a temporary file it
\* raises FileNotFoundError, an OSError, which meets the handler of line 113
SetRename(p) ==
  LET me == procs[p]
      k == me.key
      h == SetHandler(tmps[TempPath(k)])
  IN /\ me.pc = "closed"
     /\ IF tmps[TempPath(k)].exists
        THEN /\ files' = [files EXCEPT ![k] = tmps[TempPath(k)]]
             /\ tmps' = [tmps EXCEPT ![TempPath(k)] = NoFile]
             /\ procs' = [Moved(Moved(procs, k, "cache", "gone"), k, "tmp", "cache")
                           EXCEPT ![p].pc = "done", ![p].where = "none"]
        ELSE /\ tmps' = [tmps EXCEPT ![TempPath(k)] = h.tmp]
             /\ procs' = [procs EXCEPT ![p].pc = "done", ![p].where = "none",
                                       ![p].out = h.exc]
             /\ UNCHANGED files
     /\ UNCHANGED <<cliVars, conv, hana, providers, clock, cacheEnabled, pc, log,
                    lastErr, ret, last, written>>

\* get(c[1], **c[2]), lines 42-71: the file is opened and read whole, and
\* get decides
GetRead(p, c) ==
  LET k == GetCacheKey(c[1], c[2])
      g == CacheGet(files[k], clock)
  IN /\ procs[p].pc = "idle"
     /\ procs' = [procs EXCEPT ![p] =
          [pc |-> IF g.unlink THEN "deleting" ELSE "done", key |-> k,
           text |-> <<>>, where |-> "none", off |-> 0, seen |-> files[k],
           out |-> g.kind]]
     /\ UNCHANGED <<cliVars, conv, hana, providers, clock, files, tmps,
                    cacheEnabled, pc, log, lastErr, ret, last, written>>

\* get, lines 52, 59, 65, 75: cache_file.unlink() removes what the path
\* holds by now
GetUnlink(p) ==
  LET k == procs[p].key
  IN /\ procs[p].pc = "deleting"
     /\ files' = [files EXCEPT ![k] = NoFile]
     /\ procs' = [Moved(procs, k, "cache", "gone") EXCEPT ![p].pc = "done"]
     /\ UNCHANGED <<cliVars, conv, hana, providers, clock, tmps, cacheEnabled,
                    pc, log, lastErr, ret, last, written>>

\* the cache may hold an entry that an earlier set published
InitConc ==
  /\ clock = 0
  /\ files \in {[k \in CacheKeys |-> NoFile],
                [k \in CacheKeys |->
                   IF k = ProviderKey
                   THEN FileOf(JsonDump(CacheData(HanaName,
                                                  PyList(<<UsdRecord>>), 0)))
                   ELSE NoFile]}
  /\ tmps = [k \in CacheKeys |-> NoFile]
  /\ cacheEnabled = TRUE
  /\ pc = "idle"
  /\ log = <<>>
  /\ lastErr = ""
  /\ ret = NoRet
  /\ last = Step("init", "", PyNone, FALSE)
  /\ written = [k \in CacheKeys |-> NotWritten]
  /\ procs = [p \in Procs |-> IdleProc]
  /\ conv = IdleConv
  /\ hana = IdleHana
  /\ providers = ActualProviders
  /\ InitCli

\* the call all processes of the one-key runs make
HanaCall == <<HanaName, <<>> >>

NextConc ==
  \/ \E p \in Writers, data \in Snapshots : SetOpen(p, HanaCall, data)
  \/ \E p \in Writers : SetWrite(p)
  \/ \E p \in Writers : SetRename(p)
  \/ \E p \in Readers : GetRead(p, HanaCall)
  \/ \E p \in Readers : GetUnlink(p)

SpecConc == InitConc /\ [][NextConc]_vars

\* the calls of the runs over several keys: two providers
KeyCalls == {HanaCall, <<TestName, <<>> >>}

\* every process sets and gets, each under a key of its own choice
NextKeys ==
  \/ \E p \in Procs, c \in KeyCalls : SetOpen(p, c, PyList(<<UsdRecord>>))
  \/ \E p \in Procs : SetWrite(p)
  \/ \E p \in Procs : SetRename(p)
  \/ \E p \in Procs, c \in KeyCalls : GetRead(p, c)
  \/ \E p \in Procs : GetUnlink(p)

SpecKeys == InitConc /\ [][NextKeys]_vars

\* the entries a get deletes: one whose time to live is over, one that is
\* no JSON, one without its data field
StaleTexts ==
  { JsonDump(CacheData(HanaName, PyList(<<UsdRecord>>), 0)),
    <<JunkTok>>,
    JsonDump(PyDict(<< <<"timestamp", PyStr(IsoFormat(0))>> >>)) }

\* the cache holds a stale entry of the provider, at a time when an entry
\* written at 0 has expired
InitRace ==
  /\ clock = Ttl + 1
  /\ \E text \in StaleTexts :
       files = [k \in CacheKeys |->
                  IF k = ProviderKey THEN FileOf(text) ELSE NoFile]
  /\ tmps = [k \in CacheKeys |-> NoFile]
  /\ cacheEnabled = TRUE
  /\ pc = "idle"
  /\ log = <<>>
  /\ lastErr = ""
  /\ ret = NoRet
  /\ last = Step("init", "", PyNone, FALSE)
  /\ written = [k \in CacheKeys |-> NotWritten]
  /\ procs = [p \in Procs |-> IdleProc]
  /\ conv = IdleConv
  /\ hana = IdleHana
  /\ providers = ActualProviders
  /\ InitCli

\* one process sets the entry of the provider, the others get it
Setter == "w1"

NextRace ==
  \/ \E data \in Snapshots : SetOpen(Setter, HanaCall, data)
  \/ SetWrite(Setter)
  \/ SetRename(Setter)
  \/ \E p \in Procs \ {Setter} : GetRead(p, HanaCall)
  \/ \E p \in Procs \ {Setter} : GetUnlink(p)

SpecRace == InitRace /\ [][NextRace]_vars

(***************************************************************************)
(* ExchangeRateProvider.convert_amount: text of a rate, float(), and the   *)
(* lookup of the rate in a snapshot.                                       *)
(***************************************************************************)
\* a Python float: finite num/den, or nan, or an infinity of sign num
PyFloat(kind, num, den) == [t |-> "float", v |-> <<kind, num, den>>]
Fin(num, den) == PyFloat("fin", num, den)
NaN == PyFloat("nan", 0, 1)
Inf(sign) == PyFloat("inf", sign, 1)

Digits == <<"0", "1", "2", "3", "4", "5", "6", "7", "8", "9">>
IsDigit(c) == \E i \in 1..Len(Digits) : Digits[i] = c
DigitVal(c) == (CHOOSE i \in 1..Len(Digits) : Digits[i] = c) - 1

\* the characters str.strip() removes
Whitespace == {" ", "\t", "\n"}

\* the characters of the texts of the model
Chars(text) ==
  CASE text = "1,300.00" -> <<"1", ",", "3", "0", "0", ".", "0", "0">>
    [] text = "1,350.00" -> <<"1", ",", "3", "5", "0", ".", "0", "0">>
    [] text = "900.10" -> <<"9", "0", "0", ".", "1", "0">>
    [] text = " 1 300.5 " -> <<" ", "1", " ", "3", "0", "0", ".", "5", " ">>
    [] text = "-" -> <<"-">>
    [] text = "" -> <<>>
    [] text = "  " -> <<" ", " ">>
    [] text = "abc" -> <<"a", "b", "c">>
    [] text = "nan" -> <<"n", "a", "n">>
    [] text = "inf" -> <<"i", "n", "f">>
    [] text = "0" -> <<"0">>
    [] text = "0.00" -> <<"0", ".", "0", "0">>
    [] text = "-5" -> <<"-", "5">>
    [] text = "1.2.3" -> <<"1", ".", "2", ".", "3">>

RECURSIVE StripLeft(_)
StripLeft(cs) ==
  IF cs # <<>> /\ Head(cs) \in Whitespace THEN StripLeft(Tail(cs)) ELSE cs

RECURSIVE StripRight(_)
StripRight(cs) ==
  IF cs # <<>> /\ cs[Len(cs)] \in Whitespace
  THEN StripRight(SubSeq(cs, 1, Len(cs) - 1)) ELSE cs

\* str.strip()
StrStrip(cs) == StripRight(StripLeft(cs))

\* str.replace(ch, '')
RECURSIVE StrRemove(_, _)
StrRemove(cs, ch) ==
  IF cs = <<>> THEN <<>>
  ELSE (IF Head(cs) = ch THEN <<>> ELSE <<Head(cs)>>) \o StrRemove(Tail(cs), ch)

\* str.lower() on the letters of nan, inf and infinity
LowerChar(c) ==
  CASE c = "N" -> "n" [] c = "A" -> "a" [] c = "I" -> "i" [] c = "F" -> "f"
    [] c = "T" -> "t" [] c = "Y" -> "y" [] OTHER -> c

\* the number a digit string denotes
RECURSIVE DigitsVal(_, _)
DigitsVal(cs, acc) ==
  IF cs = <<>> THEN acc ELSE DigitsVal(Tail(cs), acc * 10 + DigitVal(Head(cs)))

RECURSIVE Pow10(_)
Pow10(k) == IF k = 0 THEN 1 ELSE 10 * Pow10(k - 1)

\* float(text) for a text without exponent or underscores: an optional
\* sign, then nan, inf, infinity, or digits with at most one point and at
\* least one digit; anything else raises ValueError
ParseFloat(cs) ==
  LET signed == cs # <<>> /\ Head(cs) \in {"+", "-"}
      sign == IF signed /\ Head(cs) = "-" THEN -1 ELSE 1
      body == IF signed THEN Tail(cs) ELSE cs
      low == [i \in 1..Len(body) |-> LowerChar(body[i])]
      points == {i \in 1..Len(body) : body[i] = "."}
      point == IF points = {} THEN Len(body) + 1
               ELSE CHOOSE i \in points : TRUE
      whole == SubSeq(body, 1, point - 1)
      frac == SubSeq(body, point + 1, Len(body))
      decimal == /\ Cardinality(points) <= 1
                 /\ Len(whole) + Len(frac) >= 1
                 /\ \A i \in 1..Len(whole) : IsDigit(whole[i])
                 /\ \A i \in 1..Len(frac) : IsDigit(frac[i])
  IN IF low = <<"n", "a", "n">> THEN [err |-> "", val |-> NaN]
     ELSE IF low = <<"i", "n", "f">>
             \/ low = <<"i", "n", "f", "i", "n", "i", "t", "y">>
       THEN [err |-> "", val |-> Inf(sign)]
     ELSE IF decimal
       THEN [err |-> "",
             val |-> Fin(sign * DigitsVal(whole \o frac, 0), Pow10(Len(frac)))]
     ELSE [err |-> "ValueError", val |-> NaN]

\* rate_value <= 0 (false for nan)
NotPositive(x) ==
  CASE x.v[1] = "fin" -> x.v[2] <= 0
    [] x.v[1] = "inf" -> x.v[2] < 0
    [] OTHER -> FALSE

\* amount * rate_value, for an amount that is a whole number
FloatMul(amount, x) ==
  CASE x.v[1] = "fin" -> Fin(amount * x.v[2], x.v[3])
    [] x.v[1] = "inf" -> IF amount = 0 THEN NaN
                         ELSE Inf(IF amount > 0 THEN x.v[2] ELSE -x.v[2])
    [] OTHER -> NaN

\* str.upper() on the currency codes of the model
Upper(text) ==
  CASE text \in {"USD", "usd", "Usd"} -> "USD"
    [] text \in {"KRW", "krw"} -> "KRW"
    [] text \in {"JPY", "jpy"} -> "JPY"
    [] text \in {"GBP", "gbp"} -> "GBP"
    [] OTHER -> text


\* a record as the tests build it, and records that lack a field
Rec(code, buy, sell) ==
  PyDict(<< <<"code", PyStr(code)>>, <<"cash_buy", PyStr(buy)>>,
            <<"cash_sell", PyStr(sell)>> >>)
RecNoSell(code, buy) ==
  PyDict(<< <<"code", PyStr(code)>>, <<"cash_buy", PyStr(buy)>> >>)
RecNoCode(buy, sell) ==
  PyDict(<< <<"cash_buy", PyStr(buy)>>, <<"cash_sell", PyStr(sell)>> >>)

\* the non-empty snapshots the conversions work on
ConvSnapshots ==
  { PyList(<<Rec("USD", "1,300.00", "1,350.00")>>),
    PyList(<<Rec("Usd", " 1 300.5 ", "nan"),
             Rec("USD", "1,300.00", "1,350.00")>>),
    PyList(<<Rec("USD", "-", ""), Rec("USD", "1,300.00", "1,350.00")>>),
    PyList(<<Rec("JPY", "900.10", "-"), Rec("usd", "abc", "inf")>>),
    PyList(<<Rec("USD", "0", "-5")>>),
    PyList(<<RecNoSell("USD", "0.00"), Rec("USD", "1,300.00", "1,350.00")>>),
    PyList(<<RecNoCode("1,300.00", "1,350.00"), Rec("USD", "  ", "1.2.3")>>) }

ConvAmounts == {-1, 0, 100}
ConvCurrencies == {"usd", "USD", "GBP"}
ConvTargets == {"KRW", "krw", "USD"}
ConvTypes == {"cash_buy", "cash_sell", "buy"}

ConvertValidAnyType(amount, type) == amount >= 0

\* lines 222-225: the checks that reject a call
ConvertValid(amount, type) ==
  /\ ~(amount < 0)
  /\ type \in {"cash_buy", "cash_sell"}

RateResultAnyTarget(rate, amount, to, type) ==
  IF ~DictHas(rate, type) THEN PyNone
  ELSE LET f == ParseFloat(Chars(DictGet(rate, type).v))
       IN IF f.err # "" \/ NotPositive(f.val) THEN PyNone
          ELSE FloatMul(amount, f.val)

RateResultNoCleaning(rate, amount, to, type) ==
  IF ~DictHas(rate, type) THEN PyNone
  ELSE LET f == ParseFloat(StrStrip(Chars(DictGet(rate, type).v)))
       IN IF f.err # "" \/ NotPositive(f.val) THEN PyNone
          ELSE IF to = "KRW" THEN FloatMul(amount, f.val) ELSE PyNone

\* lines 242-273: what the matching record gives
RateResult(rate, amount, to, type) ==
  IF ~DictHas(rate, type) THEN PyNone
  ELSE LET rate_str == StrStrip(Chars(DictGet(rate, type).v))
           cleaned_rate == StrRemove(StrRemove(rate_str, ","), " ")
           rate_value == ParseFloat(cleaned_rate)
       IN IF rate_str = <<>> \/ rate_str = <<"-">> THEN PyNone
          ELSE IF rate_value.err # "" THEN PyNone
          ELSE IF NotPositive(rate_value.val) THEN PyNone
          ELSE IF to = "KRW" THEN FloatMul(amount, rate_value.val)
          ELSE PyNone

\* rate.get('code', '')
CodeOf(rate) == IF DictHas(rate, "code") THEN DictGet(rate, "code").v ELSE ""

RECURSIVE LookupRateSkipsUnusable(_, _, _, _, _)
LookupRateSkipsUnusable(items, amount, from, to, type) ==
  IF items = <<>> THEN PyNone
  ELSE IF Upper(CodeOf(Head(items).v)) = from
          /\ RateResult(Head(items).v, amount, to, type) # PyNone
    THEN RateResult(Head(items).v, amount, to, type)
  ELSE LookupRateSkipsUnusable(Tail(items), amount, from, to, type)

\* lines 240-276: the loop over the snapshot
RECURSIVE LookupRate(_, _, _, _, _)
LookupRate(items, amount, from, to, type) ==
  IF items = <<>> THEN PyNone
  ELSE IF Upper(CodeOf(Head(items).v)) = from
    THEN RateResult(Head(items).v, amount, to, type)
  ELSE LookupRate(Tail(items), amount, from, to, type)

\* lines 227-276 once get_rates has returned `rates`
ConvertRates(rates, amount, from, to, type) ==
  IF ~Truthy(rates) THEN PyNone
  ELSE LookupRate(rates.v, amount, Upper(from), Upper(to), type)

\* lines 222-225: convert_amount is called and validates its arguments
ConvertCall(amount, from, to, type) ==
  LET ok == ConvertValid(amount, type)
  IN /\ pc = "idle"
     /\ conv.pc # "validated"
     /\ conv' = [pc |-> IF ok THEN "validated" ELSE "rejected",
                 amount |-> amount, from |-> from, to |-> to, type |-> type]
     /\ ret' = IF ok THEN NoRet ELSE Raised("ValueError")
     /\ log' = <<>>
     /\ lastErr' = ""
     /\ last' = Step("ConvertCall", "", PyNone, ok)
     /\ UNCHANGED <<cliVars, hana, providers, procs, clock, files, tmps, cacheEnabled,
                    pc, written>>

\* line 231: self.get_rates(context), with use_cache at its default
ConvertGetRates ==
  /\ conv.pc = "validated"
  /\ last.act = "ConvertCall"
  /\ GetRatesCall(TRUE)

\* lines 232-276: get_rates has raised or returned, and convert_amount ends
ConvertFinish ==
  /\ conv.pc = "validated"
  /\ pc = "idle"
  /\ last.act \in {"GetRates", "FetchReturns", "FetchRaises"}
  /\ ret' = IF ret.kind = "raise" THEN Raised("ProviderError")
            ELSE Returned(ConvertRates(ret.val, conv.amount, conv.from,
                                       conv.to, conv.type))
  /\ conv' = [conv EXCEPT !.pc = "done"]
  /\ last' = Step("ConvertFinish", "", ret.val, ret.kind = "raise")
  /\ UNCHANGED <<cliVars, hana, providers, procs, clock, files, tmps, cacheEnabled,
                 pc, log, lastErr, written>>

NextConvert ==
  \/ \E amount \in ConvAmounts, from \in ConvCurrencies, to \in ConvTargets,
        type \in ConvTypes : ConvertCall(amount, from, to, type)
  \/ ConvertGetRates
  \/ \E rates \in ConvSnapshots \cup {EmptySnapshot},
        fault \in {"none", "open"} : FetchReturns(rates, fault)
  \/ \E err \in FetchErrors : FetchRaises(err)
  \/ RetryWait
  \/ ConvertFinish

SpecConvert == Init /\ [][NextConvert]_vars

(***************************************************************************)
(* One process and a disk that does not fail: direct calls of get and set, *)
(* get_rates with and without use_cache, and convert_amount, of a provider *)
(* that caches or does not.  No other program writes the cache directory.  *)
(***************************************************************************)
\* no convert_amount call is waiting for its get_rates
Between == pc = "idle" /\ conv.pc # "validated"

NextRates ==
  \/ (Between /\ Tick)
  \/ (Between /\ CacheGetCall(HanaName, <<>>))
  \/ \E data \in Snapshots \cup {EmptySnapshot} :
       Between /\ CacheSetCall(HanaName, <<>>, data, "none")
  \/ \E useCache \in BOOLEAN : Between /\ GetRatesCall(useCache)
  \/ \E rates \in Snapshots \cup {EmptySnapshot} : FetchReturns(rates, "none")
  \/ \E err \in FetchErrors : FetchRaises(err)
  \/ RetryWait
  \/ \E type \in {"cash_buy", "buy"} : ConvertCall(100, "usd", "KRW", type)
  \/ ConvertGetRates
  \/ ConvertFinish

SpecRates == Init /\ [][NextRates]_vars

(***************************************************************************)
(* HanaBankProvider._parse_exchange_table over the rows of the rate table. *)
(***************************************************************************)
\* the characters of a cell joined into its text
RECURSIVE Join(_)
Join(cs) == IF cs = <<>> THEN "" ELSE Head(cs) \o Join(Tail(cs))

\* cols[i].text.strip(): a cell is the sequence of its characters
CellText(cell) == Join(StrStrip(cell))

\* the cells of the model's rows
NameUs == <<"U", "S", " ", "D", "o", "l", "l", "a", "r">>
NameJp == <<"\n", " ", "J", "a", "p", "a", "n", "e", "s", "e", " ", "Y", "e", "n", " ">>
CodeUs == <<"U", "S", "D">>
CodeJp == <<" ", "J", "P", "Y", "\n">>
RateMid == <<"1", ",", "3", "2", "0", ".", "0", "0">>

\* the <tr> rows of the model, each the sequence of its <td> cells
UsdRow == <<NameUs, CodeUs, Chars("1,300.00"), RateMid, Chars("1,350.00")>>
JpyRow == <<NameJp, CodeJp, Chars("900.10"), RateMid, <<" ", "-">> >>
WideRow == <<NameUs, CodeUs, Chars("1,300.00"), RateMid, Chars("1,350.00"), RateMid>>
DashRow == <<NameUs, <<" ", "-", " ">>, Chars("-"), Chars("-"), Chars("-")>>
BlankRow == <<NameJp, <<" ", "\t">>, Chars("900.10"), RateMid, RateMid>>
ShortRow == <<NameUs, CodeUs, Chars("1,300.00"), Chars("1,350.00")>>
HeadRow == <<>>
TableRows == {UsdRow, JpyRow, WideRow, DashRow, BlankRow, ShortRow, HeadRow}

\* how many rows a table of the model has at most
MaxRows == 3

\* the tables: every sequence of up to MaxRows rows
Tables == UNION {[1..n -> TableRows] : n \in 0..MaxRows}

\* the pages fetch_rates meets: none, one or several rows, valid or not
HanaPages ==
  { <<>>, <<DashRow>>, <<ShortRow, BlankRow>>, <<UsdRow>>,
    <<JpyRow, DashRow, UsdRow>> }

ParseRowKeepsPlaceholder(cols) ==
  IF Len(cols) >= 5
  THEN IF CellText(cols[2]) = "" THEN <<>>
       ELSE <<RateRecord(CellText(cols[1]), CellText(cols[2]),
                         CellText(cols[3]), CellText(cols[5]))>>
  ELSE <<>>

\* lines 44-67: the record of one row, or nothing
ParseRow(cols) ==
  IF Len(cols) >= 5
  THEN IF CellText(cols[2]) = "" \/ CellText(cols[2]) = "-" THEN <<>>
       ELSE <<RateRecord(CellText(cols[1]), CellText(cols[2]),
                         CellText(cols[3]), CellText(cols[5]))>>
  ELSE <<>>

\* _parse_exchange_table, lines 40-69: the loop over the rows
RECURSIVE ParseExchangeTable(_)
ParseExchangeTable(rows) ==
  IF rows = <<>> THEN <<>>
  ELSE ParseRow(Head(rows)) \o ParseExchangeTable(Tail(rows))

(***************************************************************************)
(* HanaBankProvider.fetch_rates under get_rates: one page per attempt.     *)
(* hana.open counts the pages that are open, hana.opened the pages the     *)
(* running get_rates call has opened, hana.failed names the step that      *)
(* failed in the running attempt.                                          *)
(***************************************************************************)
HanaSteps == {"HanaNewPage", "HanaGoto", "HanaWaitSelector", "HanaParse",
              "HanaClose"}

\* what context.new_page() raises when it fails: an error of the browser
\* library, no ProviderError
PageError == "PlaywrightError"

ClosesPageOnSuccessOnly(exc) == exc = ""

\* lines 104-105: the finally clause closes the page whatever was raised
ClosesPage(exc) == TRUE

\* line 76: page = context.new_page(), before the try statement; a failure
\* leaves fetch_rates at once
HanaNewPage(ok) ==
  /\ pc = "fetch"
  /\ last.act \in {"GetRates", "RetryWait"}
  /\ hana' = [pc |-> IF ok THEN "goto" ELSE "exit",
              open |-> IF ok THEN hana.open + 1 ELSE hana.open,
              opened |-> (IF last.act = "GetRates" THEN 0 ELSE hana.opened)
                           + (IF ok THEN 1 ELSE 0),
              failed |-> IF ok THEN "" ELSE "new_page",
              exc |-> IF ok THEN "" ELSE PageError,
              rows |-> <<>>, results |-> PyList(<<>>)]
  /\ last' = Step("HanaNewPage", ProviderKey, PyNone, ok)
  /\ UNCHANGED <<cliVars, conv, providers, procs, clock, files, tmps, cacheEnabled, pc,
                 log, lastErr, ret, written>>

\* a step of the try block went wrong at `at` and raises exc
HanaFailed(at, exc) ==
  [hana EXCEPT !.pc = "closing", !.failed = at, !.exc = exc]

\* lines 79-86: page.goto
HanaGoto(ok) ==
  /\ pc = "fetch"
  /\ hana.pc = "goto"
  /\ hana' = IF ok THEN [hana EXCEPT !.pc = "wait"]
             ELSE HanaFailed("goto", "NetworkError")
  /\ last' = Step("HanaGoto", ProviderKey, PyNone, ok)
  /\ UNCHANGED <<cliVars, conv, providers, procs, clock, files, tmps, cacheEnabled, pc,
                 log, lastErr, ret, written>>

\* lines 89-92: page.wait_for_selector
HanaWaitSelector(ok) ==
  /\ pc = "fetch"
  /\ hana.pc = "wait"
  /\ hana' = IF ok THEN [hana EXCEPT !.pc = "parse"]
             ELSE HanaFailed("wait", "TimeoutError")
  /\ last' = Step("HanaWaitSelector", ProviderKey, PyNone, ok)
  /\ UNCHANGED <<cliVars, conv, providers, procs, clock, files, tmps, cacheEnabled, pc,
                 log, lastErr, ret, written>>

AcceptsEmpty(results) == ""

\* lines 100-101: no record is an error
EmptyCheck(results) == IF Truthy(results) THEN "" ELSE "ParseError"

\* lines 95-101: _parse_exchange_table raises, or gives no record, or gives
\* the records of the rows of the page
HanaParse(ok, rows) ==
  LET results == IF ok THEN PyList(ParseExchangeTable(rows)) ELSE PyList(<<>>)
      exc == IF ok THEN EmptyCheck(results) ELSE "ParseError"
  IN /\ pc = "fetch"
     /\ hana.pc = "parse"
     /\ hana' = IF exc = ""
                THEN [hana EXCEPT !.pc = "closing", !.rows = rows,
                                  !.results = results]
                ELSE [HanaFailed(IF ok THEN "empty" ELSE "parse", exc)
                        EXCEPT !.rows = rows]
     /\ last' = Step("HanaParse", ProviderKey, results, ok)
     /\ UNCHANGED <<cliVars, conv, providers, procs, clock, files, tmps,
                    cacheEnabled, pc, log, lastErr, ret, written>>

\* lines 104-105: finally: page.close()
HanaClose ==
  /\ pc = "fetch"
  /\ hana.pc = "closing"
  /\ hana' = [hana EXCEPT !.pc = "exit",
                          !.open = IF ClosesPage(hana.exc) THEN hana.open - 1
                                   ELSE hana.open]
  /\ last' = Step("HanaClose", ProviderKey, PyNone, hana.exc = "")
  /\ UNCHANGED <<cliVars, conv, providers, procs, clock, files, tmps, cacheEnabled, pc,
                 log, lastErr, ret, written>>

\* line 107, or the raise: fetch_rates leaves, and the attempt of
\* _fetch_with_retry ends with what it returned or raised
HanaExit ==
  /\ hana.pc = "exit"
  /\ last.act \in HanaSteps
  /\ IF hana.exc = ""
     THEN \E fault \in {"none", "open"} : FetchReturns(hana.results, fault)
     ELSE FetchRaises(hana.exc)

NextHana ==
  \/ \E useCache \in BOOLEAN : GetRatesCall(useCache)
  \/ \E ok \in BOOLEAN : HanaNewPage(ok)
  \/ \E ok \in BOOLEAN : HanaGoto(ok)
  \/ \E ok \in BOOLEAN : HanaWaitSelector(ok)
  \/ \E ok \in BOOLEAN, rows \in HanaPages : HanaParse(ok, rows)
  \/ HanaClose
  \/ HanaExit
  \/ RetryWait
  \/ (pc = "idle" /\ Tick)

SpecHana == Init /\ [][NextHana]_vars

\* _parse_exchange_table called on its own, on a page holding `rows`; the
\* parser keeps nothing from one call to the next, so a run makes one call
ParseTableCall(rows) ==
  /\ pc = "idle"
  /\ last.act = "init"
  /\ hana' = [IdleHana EXCEPT !.rows = rows,
                              !.results = PyList(ParseExchangeTable(rows))]
  /\ ret' = Returned(hana'.results)
  /\ last' = Step("ParseExchangeTable", "", hana'.results, TRUE)
  /\ UNCHANGED <<cliVars, conv, providers, procs, clock, files, tmps,
                 cacheEnabled, pc, log, lastErr, written>>

NextParse == \E rows \in Tables : ParseTableCall(rows)

SpecParse == InitStore /\ [][NextParse]_vars

(***************************************************************************)
(* main.get_provider and the resolution step of the show command.          *)
(* PROVIDERS is a module-level dict; next to the registry main.py defines, *)
(* the model resolves identifiers over registries that hold more banks and *)
(* countries, of the kind the comments of main.py announce.                *)
(***************************************************************************)
Registries ==
  { ActualProviders,
    << <<"korea", <<"hana", "woori">> >> >>,
    << <<"usa", <<"hana", "chase">> >>, <<"korea", <<"hana", "woori">> >> >>,
    << <<"japan", <<"mufg">> >>, <<"usa", <<"chase", "mufg">> >> >> }

Identifiers ==
  { "hana", "korea.hana", "woori", "korea.woori", "usa.hana", "chase",
    "usa.chase", "mufg", "japan.mufg", "usa.mufg", "invalid_bank", "korea",
    "Hana", "kb" }

\* get_all_providers: the <<country, bank>> pairs in insertion order
RECURSIVE GetAllProviders(_)
GetAllProviders(reg) ==
  IF reg = <<>> THEN <<>>
  ELSE LET country == Head(reg)[1]
           banks == Head(reg)[2]
       IN [i \in 1..Len(banks) |-> <<country, banks[i]>>]
            \o GetAllProviders(Tail(reg))

\* f"{country}.{bank_name}"
KeyText(k) == k[1] \o "." \o k[2]

\* key.split(".")[-1]; no country and no bank of the model holds a point
BankPart(k) == k[2]

\* the error classes below ProviderError (exceptions.py)
ProviderErrors == {"ProviderError", "NetworkError", "ParseError", "TimeoutError"}

Resolved(k) == [ok |-> TRUE, key |-> KeyText(k), exc |-> "", msg |-> <<>>]

\* ValueError(f"Provider '{identifier}' not found")
NotResolved(identifier) ==
  [ok |-> FALSE, key |-> "", exc |-> "ValueError",
   msg |-> <<"Provider '", identifier, "' not found">>]

\* the first of the positions idx, 0 when there is none
FirstIndex(idx) ==
  IF idx = {} THEN 0 ELSE CHOOSE i \in idx : \A j \in idx : i <= j

GetProviderBareFirst(reg, identifier) ==
  LET all == GetAllProviders(reg)
      direct == FirstIndex({i \in 1..Len(all) : KeyText(all[i]) = identifier})
      bare == FirstIndex({i \in 1..Len(all) : BankPart(all[i]) = identifier})
  IN IF direct > 0 THEN Resolved(all[direct])
     ELSE IF bare > 0 THEN Resolved(all[bare])
     ELSE NotResolved(identifier)

\* get_provider, lines 70-85
GetProvider(reg, identifier) ==
  LET all == GetAllProviders(reg)
      direct == FirstIndex({i \in 1..Len(all) : KeyText(all[i]) = identifier})
      prefixed == FirstIndex({i \in 1..Len(all) :
                                KeyText(all[i]) = "korea." \o identifier})
      bare == FirstIndex({i \in 1..Len(all) : BankPart(all[i]) = identifier})
  IN IF direct > 0 THEN Resolved(all[direct])
     ELSE IF prefixed > 0 THEN Resolved(all[prefixed])
     ELSE IF bare > 0 THEN Resolved(all[bare])
     ELSE NotResolved(identifier)

\* a command left through typer.Exit(code)
Exited(code) == [kind |-> "exit", val |-> PyInt(ToString(code)), exc |-> ""]

\* the message parts as a list of strings
MsgList(msg) == PyList([i \in 1..Len(msg) |-> PyStr(msg[i])])

\* one call get_provider(identifier)
GetProviderCall(identifier) ==
  LET r == GetProvider(providers, identifier)
  IN /\ pc = "idle"
     /\ ret' = IF r.ok THEN Returned(PyStr(r.key)) ELSE Raised(r.exc)
     /\ log' = <<>>
     /\ last' = Step("GetProvider", identifier, MsgList(r.msg), r.ok)
     /\ UNCHANGED <<cliVars, conv, hana, providers, procs, clock, files, tmps,
                    cacheEnabled, pc, lastErr, written>>

\* show, lines 102-109: the provider is resolved; when that fails the error
\* and the available providers are printed and the command exits with 1
ShowGetProvider(bank) ==
  LET r == GetProvider(providers, bank)
      all == GetAllProviders(providers)
  IN /\ pc = "idle"
     /\ ret' = IF r.ok THEN Returned(PyStr(r.key)) ELSE Exited(1)
     /\ log' = IF r.ok THEN <<>>
               ELSE <<"Error: ">> \o r.msg \o <<"Available providers:">>
                      \o [i \in 1..Len(all) |-> KeyText(all[i])]
     /\ last' = Step("ShowGetProvider", bank, MsgList(r.msg), r.ok)
     /\ UNCHANGED <<cliVars, conv, hana, providers, procs, clock, files, tmps,
                    cacheEnabled, pc, lastErr, written>>

InitResolve ==
  /\ clock = 0
  /\ files = [k \in CacheKeys |-> NoFile]
  /\ tmps = [k \in CacheKeys |-> NoFile]
  /\ cacheEnabled = TRUE
  /\ pc = "idle"
  /\ log = <<>>
  /\ lastErr = ""
  /\ ret = NoRet
  /\ last = Step("init", "", PyNone, FALSE)
  /\ written = [k \in CacheKeys |-> NotWritten]
  /\ procs = [p \in Procs |-> IdleProc]
  /\ conv = IdleConv
  /\ hana = IdleHana
  /\ providers \in Registries
  /\ InitCli

NextResolve ==
  \/ \E identifier \in Identifiers : GetProviderCall(identifier)
  \/ \E bank \in Identifiers : ShowGetProvider(bank)

SpecResolve == InitResolve /\ [][NextResolve]_vars

(***************************************************************************)
(* browser_manager.get_browser_manager: the module keeps one               *)
(* BrowserManager and replaces it when the settings asked for differ.      *)
(***************************************************************************)
\* how many BrowserManager objects a run may make
MaxManagers == 5

\* the user_agent arguments of the calls
UserAgents == {PyNone, PyStr(""), PyStr("Test Agent"), PyStr("Custom User Agent")}

\* lines 168-182 on the module's manager m
GetBrowserManager(m, headless, user_agent) ==
  LET ua == IF user_agent = PyNone THEN DefaultUA ELSE user_agent.v
  IN IF m.inst.v[2] # headless \/ m.inst.v[3] # ua
     THEN [inst |-> NewManager(m.made, headless, PyStr(ua)),
           made |-> m.made + 1]
     ELSE m

\* one call get_browser_manager(headless, user_agent)
GetBrowserManagerCall(headless, user_agent) ==
  LET m == GetBrowserManager(manager, headless, user_agent)
  IN /\ m.made <= MaxManagers
     /\ manager' = m
     /\ ret' = Returned(m.inst)
     /\ last' = Step("GetBrowserManager", "",
                     PyList(<<PyBool(headless), user_agent>>),
                     m.inst # manager.inst)
     /\ UNCHANGED <<cmd, browser, config, conv, hana, providers, procs, clock,
                    files, tmps, cacheEnabled, pc, log, lastErr, written>>

NextManager ==
  \E headless \in BOOLEAN, user_agent \in UserAgents :
    GetBrowserManagerCall(headless, user_agent)

SpecManager == Init /\ [][NextManager]_vars

(***************************************************************************)
(* BrowserManager.browser_context, and the show and convert commands of    *)
(* main.py that run get_rates and convert_amount inside it.  The commands  *)
(* build their provider with its defaults, so caching is enabled.          *)
(***************************************************************************)
\* lines 77-82: what leaves the generator when exc was raised inside the
\* try statement, by the launch, by the context creation or by the body
Translated(exc) ==
  IF exc \in {"", "NetworkError", "RuntimeError"} THEN exc ELSE "RuntimeError"

\* context.close() of the finally clause, when there is a context
CloseContext(b, ctxCloseOk) ==
  IF b.created = 0 THEN b
  ELSE [b EXCEPT !.ctxClosed = @ + 1,
                 !.warned = IF ctxCloseOk THEN @ ELSE Append(@, "context.close")]

\* browser.close() of the finally clause, when there is a browser
CloseBrowser(b, brCloseOk) ==
  IF b.launched = 0 THEN b
  ELSE [b EXCEPT !.brClosed = @ + 1,
                 !.warned = IF brCloseOk THEN @ ELSE Append(@, "browser.close")]

ClosesBrowserUnlessContextFails(b, ctxCloseOk, brCloseOk) ==
  LET c == CloseContext(b, ctxCloseOk)
  IN [(IF b.created > 0 /\ ~ctxCloseOk THEN c ELSE CloseBrowser(c, brCloseOk))
        EXCEPT !.pc = "done"]

\* lines 83-96: the finally clause; a close() that raises is logged only
Cleanup(b, ctxCloseOk, brCloseOk) ==
  [CloseBrowser(CloseContext(b, ctxCloseOk), brCloseOk) EXCEPT !.pc = "done"]

\* lines 48-75: the browser is launched and the context created, up to the
\* yield; a failure leaves through the handlers and the finally clause.  An
\* outcome is chosen only for the calls that are made.
BrowserContextEnter(launchOk, contextOk, timeoutsOk, closeOk) ==
  LET opened == [NoBrowser EXCEPT !.headless = manager.inst.v[2],
                                  !.ua = manager.inst.v[3],
                                  !.launched = IF launchOk THEN 1 ELSE 0,
                                  !.created = IF launchOk /\ contextOk
                                              THEN 1 ELSE 0]
      exc == IF ~launchOk THEN "NetworkError"
             ELSE IF ~contextOk THEN "RuntimeError" ELSE ""
  IN /\ browser.pc = "enter"
     /\ launchOk \/ (contextOk /\ closeOk)
     /\ (launchOk /\ contextOk) \/ timeoutsOk
     /\ (launchOk /\ ~contextOk) \/ closeOk
     /\ browser' =
          IF exc = ""
          THEN [opened EXCEPT !.pc = "body",
                              !.warned = IF timeoutsOk THEN <<>>
                                         ELSE <<"timeouts">>]
          ELSE [Cleanup(opened, TRUE, closeOk) EXCEPT !.exc = Translated(exc)]
     /\ last' = Step("BrowserContextEnter", "", PyNone, exc = "")
     /\ UNCHANGED <<cmd, manager, config, conv, hana, providers, procs, clock,
                    files, tmps, cacheEnabled, pc, log, lastErr, ret, written>>

\* the statements inside the with block have returned or raised
BodyDone ==
  /\ pc = "idle"
  /\ \/ cmd.name = "show" /\ last.act \in {"GetRates", "FetchReturns", "FetchRaises"}
     \/ cmd.name = "convert" /\ last.act = "ConvertCall" /\ conv.pc = "rejected"
     \/ cmd.name = "convert" /\ last.act = "ConvertFinish"

\* lines 75-96: the with block is left, with what its body raised thrown
\* into the generator at the yield
BrowserContextExit(ctxCloseOk, brCloseOk) ==
  /\ browser.pc = "body"
  /\ BodyDone
  /\ browser' = [Cleanup(browser, ctxCloseOk, brCloseOk) EXCEPT
                   !.exc = Translated(IF ret.kind = "raise" THEN ret.exc ELSE "")]
  /\ last' = Step("BrowserContextExit", "", PyNone, ctxCloseOk /\ brCloseOk)
  /\ UNCHANGED <<cmd, manager, config, conv, hana, providers, procs, clock,
                 files, tmps, cacheEnabled, pc, log, lastErr, ret, written>>

\* what was raised inside the with block of the command, "" when nothing:
\* by the body once the context was there, else by browser_context itself
RaisedInBlock ==
  IF browser.created = 0 THEN browser.exc
  ELSE IF ret.kind = "raise" THEN ret.exc ELSE ""

\* show, lines 125-134: the handlers, in their order
ShowHandler(exc) ==
  IF exc = "NetworkError" THEN "Network error"
  ELSE IF exc \in ProviderErrors THEN "Provider error"
  ELSE "Unexpected error"

\* convert, lines 213-225
ConvertHandler(exc) ==
  IF exc = "NetworkError" THEN "Network error"
  ELSE IF exc \in ProviderErrors THEN "Provider error"
  ELSE IF exc = "ValueError" THEN "Invalid input"
  ELSE "Unexpected error"

\* a command starts its with block: get_browser_manager(headless=True)
StartsBrowser ==
  /\ manager' = GetBrowserManager(manager, TRUE, PyNone)
  /\ browser' = [NoBrowser EXCEPT !.pc = "enter"]

\* show, lines 99-123: the provider is resolved and the block entered; verbose
\* only sets the level of the log
ShowCall(bank, currency, format, noCache) ==
  LET r == GetProvider(providers, bank)
      all == GetAllProviders(providers)
      c == [IdleCmd EXCEPT !.name = "show", !.currency = currency,
                           !.format = format, !.noCache = noCache]
  IN /\ pc = "idle"
     /\ cmd.pc \in {"none", "done"}
     /\ conv.pc # "validated"
     /\ log' = IF r.ok THEN <<>>
               ELSE <<"Error: ">> \o r.msg \o <<"Available providers:">>
                      \o [i \in 1..Len(all) |-> KeyText(all[i])]
     /\ last' = Step("ShowCall", bank, MsgList(r.msg), r.ok)
     /\ IF r.ok
        THEN /\ cmd' = [c EXCEPT !.pc = "running"]
             /\ ret' = NoRet
             /\ StartsBrowser
        ELSE /\ cmd' = [c EXCEPT !.pc = "done", !.msg = "Error"]
             /\ ret' = Exited(1)
             /\ UNCHANGED <<manager, browser>>
     /\ UNCHANGED <<config, conv, hana, providers, procs, clock, files, tmps,
                    cacheEnabled, pc, lastErr, written>>

\* show, line 124: provider.get_rates(context, use_cache=not no_cache)
ShowGetRates ==
  /\ cmd.name = "show"
  /\ browser.pc = "body"
  /\ last.act = "BrowserContextEnter"
  /\ GetRatesCall(~cmd.noCache)

\* the records of rates whose code, upper-cased, is currency
RECURSIVE FilterByCode(_, _)
FilterByCode(items, currency) ==
  IF items = <<>> THEN <<>>
  ELSE (IF Upper(CodeOf(Head(items).v)) = currency THEN <<Head(items)>> ELSE <<>>)
         \o FilterByCode(Tail(items), currency)

\* show, lines 125-172: the handlers, or the rates are filtered and printed
ShowFinish ==
  LET exc == browser.exc
      rates == IF exc = "" /\ ret.kind = "return" THEN ret.val ELSE PyList(<<>>)
      shown == IF Truthy(rates) /\ cmd.currency # ""
               THEN PyList(FilterByCode(rates.v, Upper(cmd.currency)))
               ELSE rates
  IN /\ cmd.name = "show"
     /\ cmd.pc = "running"
     /\ browser.pc = "done"
     /\ cmd' = [cmd EXCEPT
          !.pc = "done",
          !.raised = RaisedInBlock,
          !.msg = IF exc # "" THEN ShowHandler(exc)
                  ELSE IF ~Truthy(rates) THEN "No exchange rate data found."
                  ELSE IF ~Truthy(shown) THEN "No data found for currency"
                  ELSE cmd.format]
     /\ ret' = IF exc # "" THEN Exited(1) ELSE Returned(PyNone)
     /\ last' = Step("ShowFinish", "", shown, exc = "")
     /\ UNCHANGED <<browser, manager, config, conv, hana, providers, procs,
                    clock, files, tmps, cacheEnabled, pc, log, lastErr, written>>

\* transaction.lower() over the texts of the model
Lower(text) ==
  CASE text \in {"buy", "BUY", "Buy"} -> "buy"
    [] text \in {"sell", "SELL"} -> "sell"
    [] OTHER -> text

\* convert, lines 186-205: the provider is resolved, the transaction type
\* chosen and the block entered
ConvertCmdCall(amount, from, to, bank, transaction) ==
  LET r == GetProvider(providers, bank)
      c == [IdleCmd EXCEPT !.name = "convert", !.amount = amount,
                           !.from = from, !.to = to,
                           !.transaction = transaction]
  IN /\ pc = "idle"
     /\ cmd.pc \in {"none", "done"}
     /\ conv.pc # "validated"
     /\ log' = IF r.ok THEN <<>> ELSE <<"Error: ">> \o r.msg
     /\ last' = Step("ConvertCmdCall", bank, MsgList(r.msg), r.ok)
     /\ IF r.ok
        THEN /\ cmd' = [c EXCEPT !.pc = "running"]
             /\ ret' = NoRet
             /\ StartsBrowser
        ELSE /\ cmd' = [c EXCEPT !.pc = "done", !.msg = "Error"]
             /\ ret' = Exited(1)
             /\ UNCHANGED <<manager, browser>>
     /\ UNCHANGED <<config, conv, hana, providers, procs, clock, files, tmps,
                    cacheEnabled, pc, lastErr, written>>

\* convert, lines 206-212: provider.convert_amount(...) is called
ConvertBody ==
  /\ cmd.name = "convert"
  /\ browser.pc = "body"
  /\ last.act = "BrowserContextEnter"
  /\ ConvertCall(cmd.amount, Upper(cmd.from), Upper(cmd.to),
                 IF Lower(cmd.transaction) = "buy" THEN "cash_buy"
                 ELSE "cash_sell")

\* convert, lines 213-233: the handlers, or the result is printed
ConvertCmdFinish ==
  LET exc == browser.exc
      result == IF exc = "" /\ ret.kind = "return" THEN ret.val ELSE PyNone
  IN /\ cmd.name = "convert"
     /\ cmd.pc = "running"
     /\ browser.pc = "done"
     /\ cmd' = [cmd EXCEPT
          !.pc = "done",
          !.raised = RaisedInBlock,
          !.msg = IF exc # "" THEN ConvertHandler(exc)
                  ELSE IF result = PyNone THEN "Cannot convert"
                  ELSE "converted"]
     /\ ret' = IF exc # "" \/ result = PyNone THEN Exited(1)
               ELSE Returned(PyNone)
     /\ last' = Step("ConvertCmdFinish", "", result, exc = "")
     /\ UNCHANGED <<browser, manager, config, conv, hana, providers, procs,
                    clock, files, tmps, cacheEnabled, pc, log, lastErr, written>>

\* the identifiers of the model's registries, in the order of str
KeyOrder ==
  <<"japan.mufg", "korea.hana", "korea.woori", "usa.chase", "usa.hana",
    "usa.mufg">>

\* sorted(get_all_providers().keys())
SortedKeys(reg) ==
  LET all == GetAllProviders(reg)
      keys == {KeyText(all[i]) : i \in 1..Len(all)}
  IN SelectSeq(KeyOrder, LAMBDA k : k \in keys)

\* list_providers, lines 241-250: one row of the table per identifier, in
\* sorted order; log holds the identifier column
ListProvidersCall ==
  /\ pc = "idle"
  /\ cmd.pc \in {"none", "done"}
  /\ conv.pc # "validated"
  /\ cmd' = [IdleCmd EXCEPT !.name = "list-providers", !.pc = "done",
                            !.msg = "Available Providers"]
  /\ log' = SortedKeys(providers)
  /\ ret' = Returned(PyNone)
  /\ last' = Step("ListProviders", "", PyNone, TRUE)
  /\ UNCHANGED <<browser, manager, config, conv, hana, providers, procs, clock,
                 files, tmps, cacheEnabled, pc, lastErr, written>>

\* the arguments of the commands
CliBanks == {"hana", "kb"}
CliCurrencies == {"", "gbp"}
CliFormats == {"table", "csv"}
CliAmounts == {-1, 100}
CliTransactions == {"buy", "SELL"}

NextCli ==
  \/ \E bank \in CliBanks, currency \in CliCurrencies, format \in CliFormats,
        noCache \in BOOLEAN : ShowCall(bank, currency, format, noCache)
  \/ \E amount \in CliAmounts, bank \in CliBanks,
        transaction \in CliTransactions :
       ConvertCmdCall(amount, "usd", "KRW", bank, transaction)
  \/ \E launchOk \in BOOLEAN, contextOk \in BOOLEAN, timeoutsOk \in BOOLEAN,
        closeOk \in BOOLEAN :
       BrowserContextEnter(launchOk, contextOk, timeoutsOk, closeOk)
  \/ ShowGetRates
  \/ ConvertBody
  \/ (cmd.name = "convert" /\ ConvertGetRates)
  \/ \E rates \in {PyList(<<UsdRecord>>), EmptySnapshot} :
       FetchReturns(rates, "none")
  \/ \E err \in FetchErrors : FetchRaises(err)
  \/ RetryWait
  \/ (cmd.name = "convert" /\ ConvertFinish)
  \/ \E ctxCloseOk \in BOOLEAN, brCloseOk \in BOOLEAN :
       BrowserContextExit(ctxCloseOk, brCloseOk)
  \/ ShowFinish
  \/ ConvertCmdFinish
  \/ ListProvidersCall

SpecCli == InitStore /\ [][NextCli]_vars

(***************************************************************************)
(* config.Config.  DEFAULT_CONFIG is a class attribute and dict.copy()     *)
(* copies its top level only: the nested dicts "cache", "browser" and      *)
(* "output" are objects every Config shares with DEFAULT_CONFIG for as     *)
(* long as its own top level points at them.  config.nested holds these    *)
(* three objects, config.obj the top level of the Config made last, where  *)
(* Ref(name) stands for the shared object.  _save_config starts with       *)
(* `from ..exceptions import ConfigError` (line 106): config.py lies in    *)
(* the top-level package, so the statement raises ImportError before       *)
(* anything is written.                                                    *)
(***************************************************************************)
RECURSIVE DeepMergeShallow(_, _)
DeepMergeShallow(base, override) ==
  IF override = <<>> THEN base
  ELSE DeepMergeShallow(DictSet(base, Head(override)[1], Head(override)[2]),
                        Tail(override))

\* _deep_merge, lines 87-91, on the items of base and override; the result
\* is what base holds afterwards
RECURSIVE DeepMerge(_, _)
DeepMerge(base, override) ==
  IF override = <<>> THEN base
  ELSE LET key == Head(override)[1]
           value == Head(override)[2]
           merged ==
             IF DictHas(base, key) /\ DictGet(base, key).t = "dict"
                /\ value.t = "dict"
             THEN DictSet(base, key,
                          PyDict(DeepMerge(DictGet(base, key).v, value.v)))
             ELSE DictSet(base, key, value)
       IN DeepMerge(merged, Tail(override))

\* the dict a top level stands for: every Ref replaced by the shared object
View(top, nested) ==
  [i \in 1..Len(top) |->
     IF top[i][2].t = "ref" THEN <<top[i][1], nested[top[i][2].v]>>
     ELSE top[i]]

\* DEFAULT_CONFIG as the class statement writes it, lines 14-28
BuiltinDefaults == View(DefaultTop, DefaultNested)

\* the key of top is still the shared object and a merge of override leaves
\* it in place: override has no such key, or a dict under it
StaysShared(top, override, k) ==
  /\ DictHas(top, k)
  /\ DictGet(top, k).t = "ref"
  /\ DictHas(override, k) => DictGet(override, k).t = "dict"

\* lines 60-61 on the copy `top` of DEFAULT_CONFIG: the top level after the
\* merge of the user's dict
MergedTop(top, nested, user) ==
  LET m == DeepMerge(View(top, nested), user)
  IN [i \in 1..Len(m) |->
        IF StaysShared(top, user, m[i][1])
        THEN <<m[i][1], DictGet(top, m[i][1])>> ELSE m[i]]

\* ... and the shared objects after it; the object `name` lies under the
\* key `name`
MergedNested(top, nested, user) ==
  LET m == DeepMerge(View(top, nested), user)
  IN [n \in DOMAIN nested |->
        IF StaysShared(top, user, n) /\ DictHas(user, n)
        THEN DictGet(m, n) ELSE nested[n]]

\* a config file: absent, or there with some text; open() of a file that is
\* there may fail
NoConfigFile == [exists |-> FALSE, readable |-> FALSE, text |-> <<>>]
ConfigFile(text) == [exists |-> TRUE, readable |-> TRUE, text |-> text]
Unreadable == [exists |-> TRUE, readable |-> FALSE, text |-> <<>>]

\* the dicts users keep in their config file
UserConfigs ==
  { << <<"cache", PyDict(<< <<"ttl_minutes", PyInt("5")>> >>)>> >>,
    << <<"cache", PyStr("off")>>, <<"default_provider", PyStr("hana")>> >>,
    << <<"output", PyDict(<< <<"default_currency", PyStr("USD")>> >>)>>,
       <<"theme", PyDict(<< <<"color", PyStr("dark")>> >>)>> >> }

ConfigFiles ==
  {NoConfigFile, Unreadable, ConfigFile(<<JunkTok>>),
   ConfigFile(JsonDump(PyList(<<PyStr("cache")>>)))}
  \cup {ConfigFile(JsonDump(PyDict(u))) : u \in UserConfigs}

\* _save_config, lines 106-121, on a config file that can be written or
\* not: the exception the call ends with, "" for none.  The import of line
\* 106 stands before the try block and raises in either case; neither the
\* write nor one of the handlers of lines 116-121 is reached
SaveConfig(writable) == "ImportError"

\* what a method that ends with _save_config hands to its caller
SaveResult(writable) ==
  IF SaveConfig(writable) = "" THEN Returned(PyNone)
  ELSE Raised(SaveConfig(writable))

\* _load_config, lines 55-69, on the config file f: what self.config is and
\* what the shared objects are afterwards; the file that is absent is to be
\* created by _save_config
LoadConfig(f, nested, writable) ==
  LET j == JsonLoad(f.text)
      defaults == [top |-> DefaultTop, nested |-> nested, exc |-> "",
                   loaded |-> FALSE]
  IN IF ~f.exists THEN [defaults EXCEPT !.exc = SaveConfig(writable)]
     ELSE IF ~f.readable \/ ~j.ok \/ j.val.t # "dict" THEN defaults
     ELSE [top |-> MergedTop(DefaultTop, nested, j.val.v),
           nested |-> MergedNested(DefaultTop, nested, j.val.v),
           exc |-> "", loaded |-> TRUE]

\* Config(config_path), lines 37-39, with f at config_path; only a file
\* that is absent is written
ConfigNew(f, writable) ==
  LET c == LoadConfig(f, config.nested, writable)
  IN /\ f.exists => writable
     /\ config' = [nested |-> c.nested,
                   obj |-> IF c.exc = "" THEN PyDict(c.top) ELSE config.obj]
     /\ ret' = IF c.exc = "" THEN Returned(PyDict(View(c.top, c.nested)))
               ELSE Raised(c.exc)
     /\ last' = Step("ConfigNew", IF f.exists THEN "exists" ELSE "absent",
                     PyBool(writable), c.loaded)
     /\ UNCHANGED <<cmd, browser, manager, conv, hana, providers, procs, clock,
                    files, tmps, cacheEnabled, pc, log, lastErr, written>>

\* the dotted keys and the values of the set calls
SetPaths == {<<"default_provider">>, <<"cache", "enabled">>,
             <<"browser", "headless">>, <<"theme", "color">>}
SetValues == {PyBool(FALSE), PyStr("woori")}

\* the dotted keys of the get calls: those of set, a key that is not there,
\* and keys that lead through a value that is no dict
GetPaths ==
  SetPaths \cup {<<"cache">>, <<"cache", "ttl_minutes">>, <<"missing">>,
                 <<"default_provider", "name">>,
                 <<"cache", "enabled", "since">>,
                 <<"theme", "color", "depth">>}

\* the key as the caller writes it, its parts joined by dots
RECURSIVE Dotted(_)
Dotted(path) ==
  IF Len(path) = 1 THEN path[1] ELSE path[1] \o "." \o Dotted(Tail(path))

\* key.split('.'), lines 134 and 153
Split(key) == CHOOSE path \in GetPaths : Dotted(path) = key

\* the dict self.config stands for
ConfigDict == PyDict(View(config.obj.v, config.nested))

\* get, lines 134-143, from `value` along the parts `keys`
RECURSIVE ConfigGet(_, _, _)
ConfigGet(value, keys, default) ==
  IF keys = <<>> THEN value
  ELSE IF value.t = "dict" /\ DictHas(value.v, Head(keys))
  THEN ConfigGet(DictGet(value.v, Head(keys)), Tail(keys), default)
  ELSE default

\* set, lines 153-166, for a key of one or two parts: the value is put in
\* place, in the shared object when the path leads there, and _save_config
\* is called; a path through a value that is no dict raises before
ConfigSet(key, value, writable) ==
  LET top == config.obj.v
      path == Split(key)
      a == path[1]
      under == IF DictHas(top, a) THEN DictGet(top, a) ELSE PyDict(<<>>)
      put(d) == PyDict(DictSet(d, path[2], value))
  IN /\ config.obj # PyNone
     /\ CASE Len(path) = 1 ->
               /\ config' = [config EXCEPT !.obj = PyDict(DictSet(top, a, value))]
               /\ ret' = SaveResult(writable)
          [] Len(path) = 2 /\ under.t = "ref" ->
               /\ config' = [config EXCEPT
                               !.nested[under.v] = put(config.nested[under.v].v)]
               /\ ret' = SaveResult(writable)
          [] Len(path) = 2 /\ under.t = "dict" ->
               /\ config' = [config EXCEPT
                               !.obj = PyDict(DictSet(top, a, put(under.v)))]
               /\ ret' = SaveResult(writable)
          [] OTHER ->
               /\ writable
               /\ config' = config
               /\ ret' = Raised("TypeError")
     /\ last' = Step("ConfigSet", key, value, writable)
     /\ UNCHANGED <<cmd, browser, manager, conv, hana, providers, procs, clock,
                    files, tmps, cacheEnabled, pc, log, lastErr, written>>

\* reset, lines 170-171
ConfigReset(writable) ==
  /\ config.obj # PyNone
  /\ config' = [config EXCEPT !.obj = PyDict(DefaultTop)]
  /\ ret' = SaveResult(writable)
  /\ last' = Step("ConfigReset", "", PyNone, writable)
  /\ UNCHANGED <<cmd, browser, manager, conv, hana, providers, procs, clock,
                 files, tmps, cacheEnabled, pc, log, lastErr, written>>

\* the defaults the callers of get pass
GetDefaults == {PyNone, PyStr("fallback")}

\* one call get(key, default)
ConfigGetCall(key, default) ==
  /\ config.obj # PyNone
  /\ ret' = Returned(ConfigGet(ConfigDict, Split(key), default))
  /\ last' = Step("ConfigGet", key, default, TRUE)
  /\ UNCHANGED <<cliVars, conv, hana, providers, procs, clock, files, tmps,
                 cacheEnabled, pc, log, lastErr, written>>

\* the dicts of the direct calls of _deep_merge
MergeDicts ==
  { <<>>,
    << <<"a", PyDict(<< <<"b", PyInt("1")>>, <<"c", PyInt("2")>> >>)>> >>,
    << <<"a", PyDict(<< <<"b", PyInt("10")>> >>)>> >>,
    << <<"a", PyInt("5")>>, <<"d", PyNone>> >>,
    << <<"d", PyInt("4")>> >>,
    << <<"d", PyDict(<< <<"z", PyInt("1")>> >>)>>,
       <<"a", PyDict(<< <<"b", PyDict(<< <<"x", PyInt("1")>> >>)>>,
                        <<"e", PyInt("3")>> >>)>> >>,
    << <<"a", PyDict(<< <<"b", PyDict(<< <<"y", PyInt("2")>> >>)>>,
                        <<"c", PyDict(<<>>)>> >>)>> >>,
    BuiltinDefaults } \cup UserConfigs

\* one call self._deep_merge(base, override)
DeepMergeCall(base, override) ==
  /\ ret' = Returned(PyDict(DeepMerge(base, override)))
  /\ last' = Step("DeepMerge", "", PyList(<<PyDict(base), PyDict(override)>>),
                  TRUE)
  /\ UNCHANGED <<cliVars, conv, hana, providers, procs, clock, files, tmps,
                 cacheEnabled, pc, log, lastErr, written>>

NextConfig ==
  \/ \E f \in ConfigFiles, writable \in BOOLEAN : ConfigNew(f, writable)
  \/ \E path \in SetPaths, value \in SetValues, writable \in BOOLEAN :
       ConfigSet(Dotted(path), value, writable)
  \/ \E writable \in BOOLEAN : ConfigReset(writable)
  \/ \E path \in GetPaths, default \in GetDefaults :
       ConfigGetCall(Dotted(path), default)

SpecConfig == InitStore /\ [][NextConfig]_vars

NextMerge ==
  \E base \in MergeDicts, override \in MergeDicts :
    DeepMergeCall(base, override)

SpecMerge == InitStore /\ [][NextMerge]_vars

(***************************************************************************)
(* BrowserManager.with_shared_browser and shared_browser_context of one    *)
(* manager.  browser.shared is self._browser: "none" for None, "open" for  *)
(* a launched browser, "closed" for a browser object whose close() was     *)
(* called and raised, so that the assignment of None after it did not run. *)
(* browser.pc tells which block is active: "shared" inside the block of    *)
(* with_shared_browser, "context" inside a block of shared_browser_context *)
(* within it, "left" after with_shared_browser was left.  Playwright's     *)
(* calls may raise its Error; close() may, too, as the handlers of         *)
(* browser_context (lines 83-96) provide for.                              *)
(***************************************************************************)
\* how many browsers one run launches, and how many contexts it creates
MaxLaunches == 2
MaxContexts == 3

\* with_shared_browser, lines 147-150: the finally clause
SharedFinally(b, closeOk) ==
  IF b.shared = "none" THEN b
  ELSE [b EXCEPT !.brClosed = @ + 1,
                 !.shared = IF closeOk THEN "none" ELSE "closed"]

\* with_shared_browser, lines 137-145: the block is entered; a launch that
\* raises leaves through the finally clause
WithSharedBrowserEnter(launchOk, closeOk) ==
  LET failed == SharedFinally(browser, closeOk)
  IN /\ browser.pc \in {"none", "left"}
     /\ browser.launched < MaxLaunches
     /\ browser.brClosed <= MaxLaunches
     /\ launchOk \/ browser.shared # "none" \/ closeOk
     /\ launchOk => closeOk
     /\ browser' = IF launchOk
                   THEN [browser EXCEPT !.pc = "shared", !.shared = "open",
                                        !.launched = @ + 1]
                   ELSE [failed EXCEPT !.pc = "left"]
     /\ ret' = IF launchOk THEN NoRet ELSE Raised("Error")
     /\ last' = Step("WithSharedBrowserEnter", browser.shared, PyNone, launchOk)
     /\ UNCHANGED <<cmd, manager, config, conv, hana, providers, procs, clock,
                    files, tmps, cacheEnabled, pc, log, lastErr, written>>

\* with_shared_browser, lines 145-150: the block is left, by its end or by
\* an exception of its body
WithSharedBrowserExit(bodyOk, closeOk) ==
  /\ browser.pc = "shared"
  /\ browser' = [SharedFinally(browser, closeOk) EXCEPT !.pc = "left"]
  /\ ret' = IF ~closeOk THEN Raised("Error")
            ELSE IF ~bodyOk THEN Raised("ValueError") ELSE Returned(PyNone)
  /\ last' = Step("WithSharedBrowserExit", browser.shared, PyNone, bodyOk)
  /\ UNCHANGED <<cmd, manager, config, conv, hana, providers, procs, clock,
                 files, tmps, cacheEnabled, pc, log, lastErr, written>>

\* shared_browser_context, lines 107-119: the check of self._browser, then
\* the context is made and set up; a browser whose close() was called makes
\* no context.  What is raised after the context was made leaves through
\* the finally clause of lines 121-123
SharedContextEnter(contextOk, timeoutsOk) ==
  LET made == browser.shared = "open" /\ contextOk
      exc == IF browser.shared = "none" THEN "RuntimeError"
             ELSE IF ~made \/ ~timeoutsOk THEN "Error" ELSE ""
  IN /\ browser.pc \in {"none", "left", "shared"}
     /\ browser.created < MaxContexts
     /\ browser.shared = "open" \/ contextOk
     /\ made \/ timeoutsOk
     /\ browser' =
          [browser EXCEPT !.created = IF made THEN @ + 1 ELSE @,
                          !.ctxClosed = IF made /\ exc # "" THEN @ + 1 ELSE @,
                          !.pc = IF exc = "" THEN "context" ELSE @]
     /\ ret' = IF exc = "" THEN NoRet ELSE Raised(exc)
     /\ last' = Step("SharedContextEnter", browser.shared, PyNone, exc = "")
     /\ UNCHANGED <<cmd, manager, config, conv, hana, providers, procs, clock,
                    files, tmps, cacheEnabled, pc, log, lastErr, written>>

\* shared_browser_context, lines 119-123: the block is left, by its end or
\* by an exception of its body, and the context closed
SharedContextExit(bodyOk) ==
  /\ browser.pc = "context"
  /\ browser' = [browser EXCEPT !.ctxClosed = @ + 1, !.pc = "shared"]
  /\ ret' = IF bodyOk THEN Returned(PyNone) ELSE Raised("ValueError")
  /\ last' = Step("SharedContextExit", browser.shared, PyNone, bodyOk)
  /\ UNCHANGED <<cmd, manager, config, conv, hana, providers, procs, clock,
                 files, tmps, cacheEnabled, pc, log, lastErr, written>>

NextShared ==
  \/ \E launchOk \in BOOLEAN, closeOk \in BOOLEAN :
       WithSharedBrowserEnter(launchOk, closeOk)
  \/ \E bodyOk \in BOOLEAN, closeOk \in BOOLEAN :
       WithSharedBrowserExit(bodyOk, closeOk)
  \/ \E contextOk \in BOOLEAN, timeoutsOk \in BOOLEAN :
       SharedContextEnter(contextOk, timeoutsOk)
  \/ \E bodyOk \in BOOLEAN : SharedContextExit(bodyOk)

SpecShared == InitStore /\ [][NextShared]_vars

(***************************************************************************)
(* Properties.                                                             *)
(***************************************************************************)
\* set published an entry under k that has stayed since, and it is `age`
\* minutes old
EntryAge(k) == clock - written[k].at

\* C1: get_rates(use_cache=True) on a caching provider whose cache holds an
\* unexpired non-empty entry returns exactly the cached snapshot, and makes
\* no fetch attempt, no retry and no cache write.
C1_CacheHitBypassesFetch ==
  [][ ( /\ last'.act = "GetRates" /\ last'.flag /\ cacheEnabled
        /\ written[ProviderKey].has /\ EntryAge(ProviderKey) <= Ttl )
      => ( /\ ret' = Returned(written[ProviderKey].data)
           /\ pc' = "idle"
           /\ log' = <<"cache_get">>
           /\ files' = files
           /\ tmps' = tmps ) ]_vars

\* a get_rates call has just returned a published snapshot from the cache
C1_Witness ==
  /\ last.act = "GetRates" /\ last.flag
  /\ written[ProviderKey].has
  /\ ret = Returned(written[ProviderKey].data)
  /\ log = <<"cache_get">>

\* C2: one get_rates call makes at most 3 fetch attempts, a further one only
\* after the previous one raised and after one wait, none after an attempt
\* returned, and it waits only between two attempts; when the third
\* attempt returns, get_rates returns that result.
C2_RetryPolicy ==
  /\ Attempts(log) <= MaxAttempts
  /\ \A i \in 1..Len(log) :
       /\ log[i] = "wait" =>
            /\ i > 1 /\ log[i - 1] = "fetch_raised"
            /\ IF i < Len(log) THEN log[i + 1] \in FetchEvents
               ELSE pc = "fetch"
       /\ (log[i] \in FetchEvents /\ i > 1 /\ log[i - 1] # "cache_get") =>
            log[i - 1] = "wait"
       /\ log[i] = "fetch_returned" =>
            \A j \in (i + 1)..Len(log) : log[j] = "cache_set"
  /\ (last.act = "FetchReturns" /\ Attempts(log) = MaxAttempts) =>
       ret = Returned(last.arg)

\* C3: when every attempt raised, get_rates raises the error of the last
\* attempt, unchanged in kind.
C3_LastErrorPropagates ==
  (last.act = "FetchRaises" /\ pc = "idle") => ret = Raised(lastErr)

\* C4: an I/O failure while set writes or renames the temporary file is
\* absorbed: set returns normally, no temporary file of the key remains,
\* and a get_rates whose fetch succeeded returns the fetched rates.
C4_SetFailureAbsorbed ==
  /\ (last.act = "CacheSet" /\ last.flag) =>
       (ret = Returned(PyNone) /\ ~tmps[last.key].exists)
  /\ (last.act = "FetchReturns" /\ last.flag) =>
       (ret = Returned(last.arg) /\ ~tmps[ProviderKey].exists)

\* a complete entry: all of what one set wrote
CompleteEntry(text) ==
  \E data \in Snapshots, t \in 0..MaxClock :
    text = JsonDump(CacheData(HanaName, data, t))

\* C5: with processes calling set and get for one key concurrently, the
\* cache file a reader opens is always a complete entry, the previous one
\* or a new one, never a partial or truncated one.
C5_ReaderSeesCompleteEntry ==
  \A p \in Readers :
    (procs[p].pc # "idle" /\ procs[p].seen.exists) =>
      CompleteEntry(procs[p].seen.text)

\* a well-formed entry: a JSON object with a data field and a timestamp
\* field that holds an ISO date string
WellFormedEntry(text) ==
  LET ld == JsonLoad(text)
  IN /\ ld.ok
     /\ ld.val.t = "dict"
     /\ DictHas(ld.val.v, "timestamp")
     /\ DictHas(ld.val.v, "data")
     /\ FromIsoFormat(DictGet(ld.val.v, "timestamp")).err = ""

\* C6: whatever an existing cache file holds that is no well-formed entry,
\* get raises nothing, returns a miss and deletes the file.
C6_MalformedEntryIsMiss ==
  [][ \A k \in CacheKeys :
        ( /\ last'.act = "CacheGet" /\ last'.key = k
          /\ files[k].exists /\ ~WellFormedEntry(files[k].text) )
        => (ret' = Returned(PyNone) /\ ~files'[k].exists) ]_vars

\* C7: an entry set wrote at time T is a hit for a get at t with
\* t - T < ttl; a get at t with t - T > ttl is a miss and deletes the
\* entry; a get without an entry is a miss, and only a write brings an
\* entry back.
C7_TtlExpiry ==
  [][ \A k \in CacheKeys :
        /\ (last'.act = "CacheGet" /\ last'.key = k) =>
             /\ (written[k].has /\ EntryAge(k) < Ttl) =>
                  ( /\ ret' = Returned(written[k].data)
                    /\ files'[k] = files[k] )
             /\ (written[k].has /\ EntryAge(k) > Ttl) =>
                  (ret' = Returned(PyNone) /\ ~files'[k].exists)
             /\ ~files[k].exists =>
                  (ret' = Returned(PyNone) /\ ~files'[k].exists)
        /\ (~files[k].exists /\ files'[k].exists) =>
             last'.act \in {"CacheSet", "FetchReturns", "Tamper"} ]_vars

\* a get has just found a published entry expired and deleted it
C7_Witness ==
  /\ last.act = "CacheGet" /\ last.flag
  /\ ret = Returned(PyNone)
  /\ ~files[last.key].exists
  /\ clock > Ttl

\* C8: right after set(name, s, params) of a non-empty snapshot s, a get
\* under the same key at any time before expiry returns a sequence equal to
\* s, record for record and field for field, in the same order.
C8_RoundTrip ==
  (last.act = "CacheSet" /\ Truthy(last.arg) /\ ret = Returned(PyNone)) =>
    \A t \in clock..MaxClock :
      t - clock < Ttl => CacheGet(files[last.key], t) = Hit(last.arg)

\* a set under a key with parameters has just written a two-record snapshot
C8_Witness ==
  /\ last.act = "CacheSet" /\ ret = Returned(PyNone)
  /\ last.arg.t = "list" /\ Len(last.arg.v) = 2
  /\ last.key # ProviderKey
  /\ last.key # GetCacheKey(TestName, <<>>)
  /\ clock > 0

\* C9: set with an empty snapshot changes nothing in the store, so a get
\* after it returns what a get before it would have; and get_rates writes
\* no empty fetch result to the cache.
C9_EmptyNeverCached ==
  [][ /\ (last'.act = "CacheSet" /\ ~Truthy(last'.arg)) =>
           /\ files' = files /\ tmps' = tmps
           /\ ret' = Returned(PyNone)
           /\ CacheGet(files'[last'.key], clock')
                = CacheGet(files[last'.key], clock)
      /\ (last'.act = "FetchReturns" /\ ~Truthy(last'.arg)) =>
           /\ files' = files /\ tmps' = tmps
           /\ "cache_set" \notin {log'[i] : i \in 1..Len(log')}
           /\ ret' = Returned(last'.arg) ]_vars

\* set was called with an empty snapshot while an entry was published
C9_Witness ==
  /\ last.act = "CacheSet" /\ ~Truthy(last.arg)
  /\ written[last.key].has
  /\ files[last.key].exists

\* C10: when get_rates of a caching provider returns a non-empty snapshot
\* it fetched, the cache holds it: a get right after returns an equal
\* sequence, and until expiry the lookup of a second get_rates hits on it.
C10_WriteThrough ==
  ( /\ last.act = "FetchReturns" /\ cacheEnabled
    /\ Truthy(last.arg) /\ ret.kind = "return" )
  => /\ ret.val = last.arg
     /\ CacheGet(files[ProviderKey], clock) = Hit(ret.val)
     /\ \A t \in clock..MaxClock :
          t - clock < Ttl =>
            LET g == CacheGet(files[ProviderKey], t)
            IN g.kind = "hit" /\ g.val = ret.val /\ Truthy(g.val)

\* get_rates has just returned and cached the result of its third attempt
C10_Witness ==
  /\ last.act = "FetchReturns" /\ cacheEnabled
  /\ Truthy(last.arg) /\ ret = Returned(last.arg)
  /\ Attempts(log) = MaxAttempts

\* the dict that a **kwargs sequence builds: its set of (name, value) items
ParamSet(d) == {d.v[i] : i \in 1..Len(d.v)}

\* C11: of any two calls of _get_cache_key, the keys are equal exactly when
\* the provider names are equal and the keyword parameters are the same
\* set of names and values, in whatever order they were passed.
C11_KeyDeterminism ==
  [][ (last.act = "GetCacheKey" /\ last'.act = "GetCacheKey") =>
        ( ret'.val = ret.val
          <=> (last'.key = last.key
               /\ ParamSet(last'.arg) = ParamSet(last.arg)) ) ]_vars

\* a key was computed for two parameters passed in descending name order
C11_Witness ==
  /\ last.act = "GetCacheKey"
  /\ Len(last.arg.v) = 2
  /\ last.arg.v[1][1] = ParamNames[2]
  /\ ret.val = PyStr(GetCacheKey(last.key, <<last.arg.v[2], last.arg.v[1]>>))

\* the index of the first record of rates whose code is `from`, ignoring
\* case; 0 when there is none
MatchIndex(rates, from) ==
  LET idx == {i \in 1..Len(rates.v) :
                Upper(CodeOf(rates.v[i].v)) = Upper(from)}
  IN IF idx = {} THEN 0 ELSE CHOOSE i \in idx : \A j \in idx : i <= j

\* the characters of a rate text once commas and spaces are taken out
Cleaned(text) == StrRemove(StrRemove(StrStrip(Chars(text)), ","), " ")

\* a positive decimal: digits with at most one point, not all of them zero
IsPositiveDecimal(cs) ==
  /\ \A i \in 1..Len(cs) : IsDigit(cs[i]) \/ cs[i] = "."
  /\ Cardinality({i \in 1..Len(cs) : cs[i] = "."}) <= 1
  /\ \E i \in 1..Len(cs) : IsDigit(cs[i]) /\ cs[i] # "0"

\* two finite floats denote the same number
SameNumber(x, y) ==
  /\ x.t = "float" /\ y.t = "float"
  /\ x.v[1] = "fin" /\ y.v[1] = "fin"
  /\ x.v[2] * y.v[3] = y.v[2] * x.v[3]

\* the conversion that ends now worked on a snapshot whose first record
\* matching from_currency has the field transaction_type
MatchHasField ==
  /\ last'.act = "ConvertFinish"
  /\ ret.kind = "return" /\ Truthy(ret.val)
  /\ MatchIndex(ret.val, conv.from) > 0
  /\ DictHas(ret.val.v[MatchIndex(ret.val, conv.from)].v, conv.type)

\* the text of that field
MatchText ==
  DictGet(ret.val.v[MatchIndex(ret.val, conv.from)].v, conv.type).v

\* C12: for amount >= 0, target KRW and a first matching record whose
\* field transaction_type is a positive decimal text (commas and spaces
\* allowed), convert_amount returns amount times that rate: 100 USD at
\* "1,300.00" gives 130000.0 and at "1,350.00" gives 135000.0.
C12_ConversionArithmetic ==
  [][ ( /\ MatchHasField
        /\ conv.amount >= 0 /\ Upper(conv.to) = "KRW"
        /\ IsPositiveDecimal(Cleaned(MatchText)) )
      => /\ ret'.kind = "return"
         /\ SameNumber(ret'.val,
                       FloatMul(conv.amount, ParseFloat(Cleaned(MatchText)).val))
         /\ (conv.amount = 100 /\ MatchText = "1,300.00") =>
              SameNumber(ret'.val, Fin(130000, 1))
         /\ (conv.amount = 100 /\ MatchText = "1,350.00") =>
              SameNumber(ret'.val, Fin(135000, 1))
         /\ (conv.amount = 100 /\ MatchText = " 1 300.5 ") =>
              SameNumber(ret'.val, Fin(130050, 1)) ]_vars

\* 100 units were converted at the cash_sell rate "1,350.00"
C12_Witness ==
  /\ last.act = "ConvertFinish"
  /\ conv.amount = 100 /\ conv.type = "cash_sell"
  /\ ret.kind = "return" /\ SameNumber(ret.val, Fin(135000, 1))

\* C13: convert_amount with amount < 0 or a transaction_type other than
\* cash_buy and cash_sell raises before any rate is acquired: the call does
\* no cache read, no fetch and no cache write.
C13_RejectsBeforeAcquisition ==
  [][ ( /\ last'.act = "ConvertCall"
        /\ (conv'.amount < 0 \/ conv'.type \notin {"cash_buy", "cash_sell"}) )
      => /\ ret' = Raised("ValueError")
         /\ conv'.pc = "rejected"
         /\ pc' = "idle"
         /\ log' = <<>>
         /\ files' = files /\ tmps' = tmps /\ written' = written ]_vars

\* a call with a valid amount and an unknown transaction type was rejected
\* while the cache held an entry
C13_Witness ==
  /\ last.act = "ConvertCall" /\ conv.pc = "rejected"
  /\ conv.amount >= 0
  /\ files[ProviderKey].exists

\* C14: whenever get_rates returned, convert_amount with a target other
\* than KRW (ignoring case) returns None and raises nothing, whatever the
\* source currency, the amount, the transaction type and the snapshot.
C14_OtherTargetIsNull ==
  [][ ( /\ last'.act = "ConvertFinish"
        /\ ret.kind = "return"
        /\ Upper(conv.to) # "KRW" )
      => ret' = Returned(PyNone) ]_vars

\* a conversion to USD ended on a snapshot whose first matching record
\* holds a positive decimal rate
C14_Witness ==
  /\ last.act = "ConvertFinish" /\ ~last.flag
  /\ Upper(conv.to) = "USD"
  /\ Truthy(last.arg)
  /\ MatchIndex(last.arg, conv.from) > 0
  /\ DictHas(last.arg.v[MatchIndex(last.arg, conv.from)].v, conv.type)
  /\ IsPositiveDecimal(Cleaned(
       DictGet(last.arg.v[MatchIndex(last.arg, conv.from)].v, conv.type).v))
  /\ ret = Returned(PyNone)

\* C15: whatever the rate field of the matching record holds, or if it is
\* missing, convert_amount raises nothing; it returns None unless the
\* cleaned rate is a positive finite decimal, and a number only then.
C15_MalformedRateIsNull ==
  [][ ( /\ last'.act = "ConvertFinish"
        /\ ret.kind = "return" /\ Truthy(ret.val)
        /\ MatchIndex(ret.val, conv.from) > 0 )
      => /\ ret'.kind = "return"
         /\ ret'.val # PyNone =>
              ( /\ DictHas(ret.val.v[MatchIndex(ret.val, conv.from)].v,
                           conv.type)
                /\ IsPositiveDecimal(Cleaned(MatchText)) ) ]_vars

\* C16: the result comes from the first record, in snapshot order, whose
\* code is from_currency ignoring case, and from that record alone, also
\* when its rate is unusable; without a matching record the result is None.
C16_FirstMatchDecides ==
  [][ ( /\ last'.act = "ConvertFinish"
        /\ ret.kind = "return" /\ Truthy(ret.val) )
      => LET i == MatchIndex(ret.val, conv.from)
         IN IF i = 0 THEN ret' = Returned(PyNone)
            ELSE ret' = Returned(RateResult(ret.val.v[i].v, conv.amount,
                                            Upper(conv.to), conv.type)) ]_vars

\* a conversion to KRW gave None on a snapshot whose first matching record
\* is unusable and whose second matching record holds a usable rate
C16_Witness ==
  /\ last.act = "ConvertFinish" /\ ~last.flag
  /\ Truthy(last.arg) /\ Len(last.arg.v) = 2
  /\ MatchIndex(last.arg, conv.from) = 1
  /\ Upper(CodeOf(last.arg.v[2].v)) = Upper(conv.from)
  /\ RateResult(last.arg.v[2].v, conv.amount, Upper(conv.to), conv.type)
       # PyNone
  /\ ret = Returned(PyNone)

\* C17: the page fetch_rates opened is closed when fetch_rates exits,
\* however it exits; during one get_rates call at most one page is open,
\* and none is open once get_rates has returned or raised.
C17_PageReleased ==
  /\ hana.open <= 1
  /\ hana.pc \in {"idle", "exit"} => hana.open = 0
  /\ pc = "idle" => hana.open = 0
  /\ hana.open = 1 => (pc = "fetch" /\ hana.pc \in {"goto", "wait", "parse", "closing"})

\* get_rates has raised after three attempts that each opened a page, the
\* last of which failed while waiting for the selector
C17_Witness ==
  /\ pc = "idle" /\ ret.kind = "raise"
  /\ hana.opened = MaxAttempts
  /\ hana.failed = "wait"
  /\ hana.open = 0

\* C18: every error that leaves HanaBankProvider.fetch_rates, and every
\* error get_rates raises on that provider, is a NetworkError, a
\* TimeoutError or a ParseError: NetworkError when opening the page or
\* navigating fails, TimeoutError when the wait for the selector fails,
\* ParseError when parsing raises or gives no record.
C18_OnlyProviderErrors ==
  /\ (hana.pc = "exit" /\ hana.exc # "") =>
       /\ hana.exc \in FetchErrors
       /\ hana.failed \in {"new_page", "goto"} => hana.exc = "NetworkError"
       /\ hana.failed = "wait" => hana.exc = "TimeoutError"
       /\ hana.failed \in {"parse", "empty"} => hana.exc = "ParseError"
  /\ ret.kind = "raise" => ret.exc \in FetchErrors

\* the registered identifiers, as a set of texts
KnownIdentifiers ==
  {KeyText(GetAllProviders(providers)[i]) :
     i \in 1..Len(GetAllProviders(providers))}

\* the registered keys whose bank part is the identifier, by position
BareMatches(identifier) ==
  {i \in 1..Len(GetAllProviders(providers)) :
     BankPart(GetAllProviders(providers)[i]) = identifier}

\* C19: get_provider tries the exact "country.bank" key, then "korea." +
\* identifier, then the registered keys whose bank part is the identifier,
\* and builds the provider of the first match: "korea.hana" resolves
\* directly, "hana" resolves to korea.hana, and korea wins over another
\* country that has a bank of that name.
C19_ResolutionOrder ==
  (last.act = "GetProvider") =>
    LET id == last.key
    IN /\ id \in KnownIdentifiers => ret = Returned(PyStr(id))
       /\ (id \notin KnownIdentifiers
           /\ ("korea." \o id) \in KnownIdentifiers) =>
            ret = Returned(PyStr("korea." \o id))
       /\ (id \notin KnownIdentifiers
           /\ ("korea." \o id) \notin KnownIdentifiers
           /\ BareMatches(id) # {}) =>
            \E i \in BareMatches(id) :
              /\ \A j \in BareMatches(id) : i <= j
              /\ ret = Returned(PyStr(KeyText(GetAllProviders(providers)[i])))
       /\ (id = "hana" /\ "korea.hana" \in KnownIdentifiers) =>
            ret = Returned(PyStr("korea.hana"))

\* "hana" was resolved to korea.hana in a registry where usa.hana is
\* registered before it
C19_Witness ==
  /\ last.act = "GetProvider" /\ last.key = "hana"
  /\ KeyText(GetAllProviders(providers)[1]) = "usa.hana"
  /\ ret = Returned(PyStr("korea.hana"))

\* C20: for an identifier that no resolution step matches, get_provider
\* raises an error that is no ProviderError and that names every known
\* provider identifier, and show exits with status 1.
C20_UnknownIdentifier ==
  LET id == last.key
      unknown == /\ id \notin KnownIdentifiers
                 /\ ("korea." \o id) \notin KnownIdentifiers
                 /\ BareMatches(id) = {}
  IN /\ (last.act = "GetProvider" /\ unknown) =>
          /\ ret.kind = "raise"
          /\ ret.exc \notin ProviderErrors
          /\ \A k \in KnownIdentifiers :
               \E i \in 1..Len(last.arg.v) : last.arg.v[i].v = k
     /\ (last.act = "ShowGetProvider" /\ unknown) => ret = Exited(1)

\* C25: after any sequence of get_browser_manager calls the manager returned
\* has the headless flag and the user agent of the latest call (the default
\* user agent when none was given), and a call with the settings of the call
\* before it returns the same instance.
C25_ManagerFollowsSettings ==
  [][ last'.act = "GetBrowserManager" =>
        /\ ret'.val.v[2] = (last'.arg.v[1] = PyBool(TRUE))
        /\ ret'.val.v[3] = (IF last'.arg.v[2] = PyNone THEN DefaultUA
                            ELSE last'.arg.v[2].v)
        /\ (last.act = "GetBrowserManager" /\ last.arg = last'.arg
              => ret'.val = ret.val) ]_vars

\* C21: in the show and convert commands every failure raised inside the
\* browser-context block ends the command with a non-zero exit status and the
\* message of its kind: 'Network error' for a NetworkError, 'Provider error'
\* for any other ProviderError, 'Invalid input' for an input convert rejects
\* (a ValueError), and 'Unexpected error' only for the other exceptions.
C21_FailureMessageMatchesKind ==
  (cmd.pc = "done" /\ cmd.raised # "") =>
     /\ ret = Exited(1)
     /\ cmd.msg = (IF cmd.raised = "NetworkError" THEN "Network error"
                   ELSE IF cmd.raised \in ProviderErrors THEN "Provider error"
                   ELSE IF cmd.name = "convert" /\ cmd.raised = "ValueError"
                     THEN "Invalid input"
                   ELSE "Unexpected error")

\* C24: on every exit of browser_context (normal, exception in the body,
\* failed context creation) the context, if one was created, and the browser,
\* if one was launched, have each been closed exactly once, also when closing
\* the context failed; before the exit nothing is closed.
C24_ClosedExactlyOnce ==
  /\ browser.pc = "done" =>
       /\ browser.ctxClosed = browser.created
       /\ browser.brClosed = browser.launched
  /\ browser.pc = "body" => browser.ctxClosed = 0 /\ browser.brClosed = 0

\* the body raised, closing the context failed, and the browser was closed
C24_Witness ==
  /\ browser.pc = "done"
  /\ browser.created = 1
  /\ browser.exc = "RuntimeError"
  /\ "context.close" \in {browser.warned[i] : i \in 1..Len(browser.warned)}
  /\ browser.brClosed = 1

\* the row has the cells of a record: five or more, and a code that is
\* neither empty nor the placeholder once trimmed
Trimmed(cell) ==
  LET solid == {i \in 1..Len(cell) : cell[i] \notin Whitespace}
  IN IF solid = {} THEN <<>>
     ELSE SubSeq(cell, CHOOSE i \in solid : \A j \in solid : i <= j,
                       CHOOSE i \in solid : \A j \in solid : j <= i)

ValidRow(row) ==
  /\ Len(row) >= 5
  /\ Trimmed(row[2]) # <<>>
  /\ Trimmed(row[2]) # <<"-">>

\* the position in rows of the k-th valid row
KthValid(rows, k) ==
  CHOOSE i \in 1..Len(rows) :
    /\ ValidRow(rows[i])
    /\ Cardinality({j \in 1..i : ValidRow(rows[j])}) = k

\* C22: the Hana parser returns, in row order, exactly one record per row
\* that has at least 5 cells and a code (column 1, trimmed) that is neither
\* empty nor "-"; the fields are the trimmed columns 0, 1, 2 and 4, provider
\* and country the provider's name and "KR"; the other rows are skipped and
\* the rows after them still parsed.
C22_ParserKeepsValidRows ==
  last.act = "ParseExchangeTable" =>
    LET rows == hana.rows
        out == ret.val.v
        n == Cardinality({i \in 1..Len(rows) : ValidRow(rows[i])})
    IN /\ ret.kind = "return"
       /\ Len(out) = n
       /\ \A k \in 1..n :
            LET row == rows[KthValid(rows, k)]
            IN out[k] = PyDict(<<
                 <<"currency", PyStr(Join(Trimmed(row[1])))>>,
                 <<"code", PyStr(Join(Trimmed(row[2])))>>,
                 <<"cash_buy", PyStr(Join(Trimmed(row[3])))>>,
                 <<"cash_sell", PyStr(Join(Trimmed(row[5])))>>,
                 <<"provider", PyStr("KEB Hana Bank (Korea)")>>,
                 <<"country", PyStr("KR")>> >>)

\* a short row and a placeholder row are skipped and the row after them
\* gives the one record
C22_Witness ==
  /\ last.act = "ParseExchangeTable"
  /\ hana.rows = <<ShortRow, DashRow, JpyRow>>
  /\ ret.val = PyList(<<RateRecord("Japanese Yen", "JPY", "900.10", "-")>>)

\* C23: when the table gives no valid record, fetch_rates raises ParseError,
\* the attempt counts as a failed attempt of the retry, and nothing is
\* written to the cache.
C23_EmptyParseFails ==
  [][ /\ ( /\ last'.act = "HanaParse" /\ last'.flag
           /\ \A i \in 1..Len(hana'.rows) : ~ValidRow(hana'.rows[i]) )
         => (hana'.failed = "empty" /\ hana'.exc = "ParseError")
      /\ ( /\ hana.failed = "empty" /\ hana.pc = "exit"
           /\ last'.act \in {"FetchReturns", "FetchRaises"} )
         => ( /\ last'.act = "FetchRaises"
              /\ lastErr' = "ParseError"
              /\ Attempts(log') = Attempts(log) + 1
              /\ log'[Len(log')] = "fetch_raised"
              /\ files' = files /\ tmps' = tmps /\ written' = written ) ]_vars

\* a page whose only row holds the placeholder made an attempt fail
C23_Witness ==
  /\ last.act = "FetchRaises"
  /\ hana.failed = "empty"
  /\ hana.rows = <<DashRow>>
  /\ lastErr = "ParseError"
  /\ files[ProviderKey] = NoFile

\* C26: the identifiers that get_all_providers gives and list-providers
\* prints are exactly the "country.bank" pairs of the registry, and both
\* "korea.hana" and "korea.woori" are among them.
C26_RegistryListsHanaAndWoori ==
  last.act = "ListProviders" =>
    LET all == GetAllProviders(providers)
        listed == {log[i] : i \in 1..Len(log)}
    IN /\ listed = UNION {{providers[c][1] \o "." \o providers[c][2][b] :
                               b \in 1..Len(providers[c][2])} :
                             c \in 1..Len(providers)}
       /\ listed = {KeyText(all[i]) : i \in 1..Len(all)}
       /\ Len(log) = Cardinality(listed)
       /\ "korea.hana" \in listed
       /\ "korea.woori" \in listed

\* result is base with override merged into it, key by key
RECURSIVE IsMerge(_, _, _)
IsMerge(base, override, result) ==
  LET keys(d) == {d[i][1] : i \in 1..Len(d)}
  IN /\ keys(result) = keys(base) \cup keys(override)
     /\ Len(result) = Cardinality(keys(result))
     /\ \A k \in keys(base) \ keys(override) :
          DictGet(result, k) = DictGet(base, k)
     /\ \A k \in keys(override) :
          IF k \in keys(base) /\ DictGet(base, k).t = "dict"
             /\ DictGet(override, k).t = "dict"
          THEN /\ DictGet(result, k).t = "dict"
               /\ IsMerge(DictGet(base, k).v, DictGet(override, k).v,
                          DictGet(result, k).v)
          ELSE DictGet(result, k) = DictGet(override, k)

\* C27: Config._deep_merge merges recursively per key: where base and
\* override both hold a dict under a key the two are merged in turn, any
\* other override value (a non-dict, or one over a non-dict of base) replaces
\* the value of base wholesale, keys only override has are added and keys
\* only base has are kept.
C27_DeepMergePerKey ==
  last.act = "DeepMerge" =>
    /\ ret.kind = "return"
    /\ IsMerge(last.arg.v[1].v, last.arg.v[2].v, ret.val.v)

\* the docstring's example: {"a": {"b": 1, "c": 2}} and {"a": {"b": 10}}
C27_Witness ==
  /\ last.act = "DeepMerge"
  /\ last.arg.v[1] = PyDict(<< <<"a", PyDict(<< <<"b", PyInt("1")>>,
                                                <<"c", PyInt("2")>> >>)>> >>)
  /\ last.arg.v[2] = PyDict(<< <<"a", PyDict(<< <<"b", PyInt("10")>> >>)>> >>)
  /\ ret.val = PyDict(<< <<"a", PyDict(<< <<"b", PyInt("10")>>,
                                          <<"c", PyInt("2")>> >>)>> >>)

\* C28: when the persisted config file cannot be read or parsed, constructing
\* Config raises nothing and gives exactly the built-in defaults for every
\* key, whatever Config objects were loaded, set or reset before.
C28_UnreadableGivesDefaults ==
  (last.act = "ConfigNew" /\ last.key = "exists" /\ ~last.flag) =>
    /\ ret.kind = "return"
    /\ ret.val = PyDict(BuiltinDefaults)
    /\ View(config.obj.v, config.nested) = BuiltinDefaults

\* C29: a cache operation on one key never affects the entry or the
\* temporary file of another key, under every interleaving of the steps of
\* concurrent processes: whatever a step changes under a key, every process
\* the step touches, the one taking it included, works on that key.
C29_KeysAreIsolated ==
  [][ \A k \in CacheKeys :
        (files'[k] # files[k] \/ tmps'[k] # tmps[k]) =>
          /\ \E p \in Procs : procs'[p] # procs[p]
          /\ \A p \in Procs : procs'[p] # procs[p] => procs'[p].key = k ]_vars

\* one process has published under one key while another is in the middle
\* of a write under another key, its temporary file in place
C29_Witness ==
  \E p \in Procs, q \in Procs :
    /\ procs[p].key # "" /\ procs[q].key # "" /\ procs[p].key # procs[q].key
    /\ procs[p].pc = "done" /\ procs[p].seen = NoFile /\ procs[p].out = ""
    /\ files[procs[p].key].exists
    /\ procs[q].pc = "writing" /\ procs[q].off > 0
    /\ tmps[procs[q].key].exists

\* C30: when CacheManager.get meets an I/O failure on a cache file that is
\* there and is not corrupt (it cannot be opened, say), it raises CacheError
\* and does not return a miss.
C30_OpenFailureRaisesCacheError ==
  last.act = "CacheGetFault" => ret = Raised("CacheError")

\* C31: when the config file cannot be written, Config.set, Config.reset and
\* the creation of the default file by Config() raise nothing to the caller,
\* and the configuration in memory is there to be read through get.
C31_SaveFailureNotRaised ==
  LET failed ==
        \/ last.act \in {"ConfigSet", "ConfigReset"} /\ ~last.flag
        \/ last.act = "ConfigNew" /\ last.key = "absent"
             /\ last.arg = PyBool(FALSE)
  IN failed => ret.kind = "return" /\ config.obj # PyNone

\* C34: DEFAULT_CONFIG is never changed by a load, a set or a reset, and
\* after reset, whatever was loaded and set before, get(k) gives the
\* built-in default of every key k.
C34_ResetRestoresDefaults ==
  /\ config.nested = DefaultNested
  /\ last.act = "ConfigReset" =>
       \A path \in GetPaths :
         ConfigGet(ConfigDict, path, PyNone)
           = ConfigGet(PyDict(BuiltinDefaults), path, PyNone)

\* the dict reached from d along the first n parts of path, PyNone when a
\* part is missing or a value on the way is no dict
RECURSIVE Reached(_, _, _)
Reached(d, path, n) ==
  IF n = 0 THEN d
  ELSE LET up == Reached(d, path, n - 1)
       IN IF up.t = "dict" /\ DictHas(up.v, path[n])
          THEN DictGet(up.v, path[n]) ELSE PyNone

\* some part of path is missing, or lies under a value that is no dict
Broken(d, path) ==
  \E n \in 1..Len(path) :
    LET up == Reached(d, path, n - 1)
    IN up.t # "dict" \/ ~DictHas(up.v, path[n])

\* neither path is on the other: they part before either ends
Apart(p, q) ==
  \E n \in 1..Len(p) : n <= Len(q) /\ p[n] # q[n]
                         /\ \A m \in 1..(n - 1) : p[m] = q[m]

\* C35: set(k, v) returns, get(k) then gives v, and every key that is not on
\* the path of k reads as before; get of a key with a missing part, or with
\* a part under a value that is no dict, returns the default it was given.
C35_SetThenGet ==
  [][ /\ last'.act = "ConfigSet" =>
           /\ ret'.kind = "return"
           /\ ConfigGet(ConfigDict', Split(last'.key), PyNone) = last'.arg
           /\ \A q \in GetPaths :
                Apart(q, Split(last'.key)) =>
                  \A d \in GetDefaults :
                    ConfigGet(ConfigDict', q, d) = ConfigGet(ConfigDict, q, d)
      /\ (last'.act = "ConfigGet" /\ Broken(ConfigDict, Split(last'.key))) =>
           ret' = Returned(last'.arg) ]_vars

\* C32: within one get_rates call the cache is read at most once and only
\* before the first fetch attempt, it is written at most once and only right
\* after an attempt that returned, and an attempt that raises and the wait
\* that follows it, the last attempt included, touch no cache file.
C32_RetryWrapsOnlyFetch ==
  [][ /\ \A i \in 1..Len(log') :
           /\ log'[i] = "cache_get" => i = 1
           /\ log'[i] = "cache_set" =>
                i = Len(log') /\ i > 1 /\ log'[i - 1] = "fetch_returned"
      /\ last'.act \in {"FetchRaises", "RetryWait"} =>
           files' = files /\ tmps' = tmps ]_vars

\* a call that looked the cache up, failed twice, and cached the result of
\* its third attempt
C32_Witness ==
  /\ pc = "idle"
  /\ log = <<"cache_get", "fetch_raised", "wait", "fetch_raised", "wait",
             "fetch_returned", "cache_set">>

\* C33: get_rates with use_cache false reads no cache file and goes on to
\* fetch, whatever entry is there; when the fetch of a caching provider
\* returns a non-empty snapshot, the entry is that snapshot, written now;
\* a provider with caching off reads, writes and deletes no cache file in
\* get_rates and convert_amount.
C33_BypassAndDisabled ==
  [][ /\ (last'.act = "GetRates" /\ ~last'.flag) =>
           /\ pc' = "fetch"
           /\ files' = files /\ tmps' = tmps
           /\ log' = <<>>
      /\ (last'.act = "FetchReturns" /\ cacheEnabled /\ Truthy(last'.arg)) =>
           /\ files'[ProviderKey]
                = FileOf(JsonDump(CacheData(HanaName, last'.arg, clock)))
           /\ CacheGet(files'[ProviderKey], clock) = Hit(last'.arg)
      /\ ( /\ ~cacheEnabled
           /\ last'.act \in {"GetRates", "FetchReturns", "FetchRaises",
                             "RetryWait", "ConvertCall", "ConvertFinish"} ) =>
           /\ files' = files /\ tmps' = tmps
           /\ \A i \in 1..Len(log') :
                log'[i] \notin {"cache_get", "cache_set"} ]_vars

\* get_rates was called with use_cache false on a caching provider while
\* its entry was a hit, and is about to fetch
C33_Witness ==
  /\ last.act = "GetRates" /\ ~last.flag
  /\ cacheEnabled
  /\ pc = "fetch"
  /\ CacheGet(files[ProviderKey], clock).kind = "hit"

\* an entry as set writes it: a JSON object with an ISO timestamp, the
\* provider name and a non-empty data list
FullEntry(text) ==
  LET ld == JsonLoad(text)
  IN /\ WellFormedEntry(text)
     /\ DictHas(ld.val.v, "provider")
     /\ DictGet(ld.val.v, "provider").t = "str"
     /\ DictGet(ld.val.v, "data").t = "list"
     /\ Len(DictGet(ld.val.v, "data").v) > 0

\* C37: in one process on a disk that does not fail, whatever set, get and
\* get_rates calls were made, every cache file that is there is a full
\* entry, and no temporary file is left once a call has ended.
C37_StoreHoldsFullEntries ==
  \A k \in CacheKeys :
    /\ files[k].exists => FullEntry(files[k].text)
    /\ ~tmps[k].exists

\* a direct set has just published an entry, some minutes into the run
C37_Witness ==
  /\ last.act = "CacheSet" /\ Truthy(last.arg)
  /\ ret = Returned(PyNone)
  /\ files[last.key].exists
  /\ written[last.key].has /\ written[last.key].at > 0
  /\ clock = written[last.key].at

\* C38: the delete of a get that found a stale entry removes only the file
\* that get read: when a set has published another entry in between, the
\* delete leaves it in place, and a get made afterwards hits on it.
C38_DeletesOnlyWhatItRead ==
  [][ \A p \in Procs :
        ( /\ procs[p].pc = "deleting" /\ procs'[p].pc = "done"
          /\ files[procs[p].key] # procs[p].seen ) =>
          /\ files'[procs[p].key] = files[procs[p].key]
          /\ (\E data \in Snapshots :
                files[procs[p].key]
                  = FileOf(JsonDump(CacheData(HanaName, data, clock)))) =>
               CacheGet(files'[procs[p].key], clock').kind = "hit" ]_vars

\* C36: shared_browser_context called while no with_shared_browser block of
\* the manager is active, before the first or after one was left, by its end
\* or by an exception, raises RuntimeError and creates no context; when a
\* shared_browser_context block is left every context made is closed; when
\* with_shared_browser is left the browser is closed and self._browser is
\* None.
C36_SharedContextNeedsActiveBlock ==
  [][ /\ (last'.act = "SharedContextEnter" /\ browser.pc \in {"none", "left"}) =>
           /\ ret' = Raised("RuntimeError")
           /\ browser'.created = browser.created
      /\ last'.act = "SharedContextExit" =>
           browser'.ctxClosed = browser'.created
      /\ browser'.pc = "left" =>
           /\ browser'.brClosed >= browser'.launched
           /\ browser'.ctxClosed = browser'.created
           /\ browser'.shared = "none" ]_vars

====
